---- MODULE Spec2Model ----
(***************************************************************************)
(* Model of the household-finance projection application src/script.js    *)
(* (second snapshot, lines 1281-3603): the data store appData and its     *)
(* handlers, the core-balance estimator and the month-by-month projection *)
(* runSimulation.                                                          *)
(*                                                                         *)
(* Numbers: JavaScript Numbers are modelled as exact rationals <<n, d>>   *)
(* (d > 0, lowest terms); integer-only quantities are plain integers.     *)
(* Year-month strings "YYYY-MM" are pairs <<year, month>>, month 1..12;   *)
(* Date objects are records [year, mon] with mon 0..11 as in JavaScript.  *)
(***************************************************************************)
EXTENDS Integers, Sequences, FiniteSets, TLC

VARIABLES
    appData,   \* the shared data model (src/script.js:1284)
    stored,    \* localStorage: the copy written by saveData, and whether it is full
    modal,     \* the single message modal and its button handlers
    now,       \* the wall clock: <<year, month>> of "new Date()"
    dom,       \* the balance-input form as last rendered
    sim,       \* the locals of one runSimulation call
    est,       \* the locals of one calculateNormalizedCoreBalance call
    ret,       \* the last handler or utility call, its inputs and what it returned
    uuids      \* the ids crypto.randomUUID() has handed out

vars == <<appData, stored, modal, now, dom, sim, est, ret, uuids>>

(***************************************************************************)
(* Program constants                                                       *)
(***************************************************************************)
MAX_PREDICTION_MONTHS == 1200

NULL == <<>>

(***************************************************************************)
(* Bounds of the model                                                     *)
(***************************************************************************)
\* longest horizon (years) explored with non-trivial rates
MaxShortYears == 2
\* months explored for inputs with a fractional monthly yield (exact
\* balances need more than 32 bits after that)
MaxFracMonths == 2

(***************************************************************************)
(* Exact arithmetic standing for JavaScript Numbers                        *)
(***************************************************************************)
Abs(x) == IF x < 0 THEN -x ELSE x

RECURSIVE GCD(_, _)
GCD(a, b) == IF b = 0 THEN a ELSE GCD(b, a % b)

RNorm(n, d) ==
    LET g == GCD(Abs(n), d)
    IN  <<n \div g, d \div g>>

R(n) == <<n, 1>>

RAdd(a, b) ==
    LET g == GCD(a[2], b[2])
    IN  RNorm(a[1] * (b[2] \div g) + b[1] * (a[2] \div g), (a[2] \div g) * b[2])

RNeg(a) == <<-a[1], a[2]>>

RSub(a, b) == RAdd(a, RNeg(b))

RMul(a, b) ==
    LET g1 == GCD(Abs(a[1]), b[2])
        g2 == GCD(Abs(b[1]), a[2])
    IN  <<(a[1] \div g1) * (b[1] \div g2), (a[2] \div g2) * (b[2] \div g1)>>

\* a / k for a positive integer k
RDivInt(a, k) == RMul(a, RNorm(1, k))

RECURSIVE RPow(_, _)
RPow(a, k) == IF k = 0 THEN R(1) ELSE RMul(a, RPow(a, k - 1))

RLt(a, b) == a[1] * b[2] < b[1] * a[2]

RIsNeg(a) == a[1] < 0

\* Math.round: nearest integer, halves towards +infinity
MathRound(a) == (2 * a[1] + a[2]) \div (2 * a[2])

\* x || d for a numeric x (0 is falsy)
OrDefault(x, d) == IF x = 0 THEN d ELSE x

(***************************************************************************)
(* Calendar utilities                                                      *)
(***************************************************************************)
\* a.localeCompare(b) on two "YYYY-MM" strings: -1, 0 or 1
LocaleCompare(a, b) ==
    IF a[1] < b[1] THEN -1
    ELSE IF a[1] > b[1] THEN 1
    ELSE IF a[2] < b[2] THEN -1
    ELSE IF a[2] > b[2] THEN 1
    ELSE 0

\* the relational operators <= and >= on two "YYYY-MM" strings
StrLeq(a, b) == LocaleCompare(a, b) <= 0

parseYearMonth(ym) == [year |-> ym[1], mon |-> ym[2] - 1]

formatDateToYM(date) == <<date.year, date.mon + 1>>

addMonth(date) ==
    IF date.mon + 1 > 11
    THEN [year |-> date.year + 1, mon |-> 0]
    ELSE [year |-> date.year, mon |-> date.mon + 1]

\* mutant of diffMonths: the months of the two dates are not looked at
diffMonthsOfYears(ym1, ym2) ==
    LET date1 == parseYearMonth(ym1)
        date2 == parseYearMonth(ym2)
    IN  (date1.year - date2.year) * 12

diffMonths(ym1, ym2) ==
    LET date1 == parseYearMonth(ym1)
        date2 == parseYearMonth(ym2)
    IN  (date1.year - date2.year) * 12 + (date1.mon - date2.mon)

(***************************************************************************)
(* Sequence helpers standing for Array.prototype methods                   *)
(***************************************************************************)
\* arr.findIndex(x => x.id === id), 1-based; 0 when absent
RECURSIVE FindIdFrom(_, _, _)
FindIdFrom(arr, id, k) ==
    IF k > Len(arr) THEN 0
    ELSE IF arr[k].id = id THEN k
    ELSE FindIdFrom(arr, id, k + 1)

FindId(arr, id) == FindIdFrom(arr, id, 1)

\* arr.findIndex(x => x.month === month), 1-based; 0 when absent
RECURSIVE FindMonthFrom(_, _, _)
FindMonthFrom(arr, month, k) ==
    IF k > Len(arr) THEN 0
    ELSE IF arr[k].month = month THEN k
    ELSE FindMonthFrom(arr, month, k + 1)

\* mutant of FindMonth: no record is ever found
FindMonthNever(arr, month) == 0

FindMonth(arr, month) == FindMonthFrom(arr, month, 1)

\* insertion of x into an array sorted by month (dir = 1 ascending, -1
\* descending): after every element that does not compare greater than x
RECURSIVE InsertByMonth(_, _, _)
InsertByMonth(sorted, x, dir) ==
    IF sorted = <<>> THEN <<x>>
    ELSE IF dir * LocaleCompare(Head(sorted).month, x.month) > 0 THEN <<x>> \o sorted
    ELSE <<Head(sorted)>> \o InsertByMonth(Tail(sorted), x, dir)

\* mutant of SortByMonth: the array is used in its stored order
SortByMonthSkipped(arr, dir) == arr

\* arr.sort((a, b) => dir * a.month.localeCompare(b.month)); the sort is stable
RECURSIVE SortByMonth(_, _)
SortByMonth(arr, dir) ==
    IF arr = <<>> THEN <<>>
    ELSE InsertByMonth(SortByMonth(SubSeq(arr, 1, Len(arr) - 1), dir), arr[Len(arr)], dir)

\* name.includes(pat) on strings given as sequences of characters
Includes(name, pat) ==
    \E k \in 0..(Len(name) - Len(pat)) :
        \A j \in 1..Len(pat) : name[k + j] = pat[j]

(***************************************************************************)
(* Recurring-expense evaluator                                             *)
(***************************************************************************)
\* mutant of RecurringFires: months before startYM are not skipped
RecurringFiresBeforeStart(exp, targetYM) ==
    /\ targetYM[2] = exp.startYM[2]
    /\ exp.intervalYears # 0
    /\ (targetYM[1] - exp.startYM[1]) % Abs(exp.intervalYears) = 0

\* one iteration of the forEach of getRecurringExpenseForMonth
RecurringFires(exp, targetYM) ==
    LET startYM       == exp.startYM
        intervalYears == exp.intervalYears
        targetYear    == targetYM[1]
        targetMonthNum == targetYM[2]
        startYear     == startYM[1]
        startMonthNum == startYM[2]
    IN  /\ ~(LocaleCompare(targetYM, startYM) < 0)
        /\ targetMonthNum = startMonthNum
        \* x % 0 is NaN, which is not === 0
        /\ intervalYears # 0
        /\ (targetYear - startYear) % Abs(intervalYears) = 0

RECURSIVE RecurringSum(_, _)
RecurringSum(exps, targetYM) ==
    IF exps = <<>> THEN 0
    ELSE (IF RecurringFires(Head(exps), targetYM) THEN Head(exps).amount ELSE 0)
         + RecurringSum(Tail(exps), targetYM)

getRecurringExpenseForMonth(targetYM, recurringExpenses) ==
    RecurringSum(recurringExpenses, targetYM)

(***************************************************************************)
(* Age-banded cost tables                                                  *)
(***************************************************************************)
EDUCATION_COSTS ==
    [public  |-> [kindergarten |-> 25000, elementary |-> 27000, juniorHigh |-> 45000,
                  highSchool |-> 43000, university |-> 90000],
     private |-> [kindergarten |-> 45000, elementary |-> 140000, juniorHigh |-> 120000,
                  highSchool |-> 90000, university |-> 140000]]

GROWTH_EXPENSES == [middleSchool |-> 10000, highSchool |-> 15000, college |-> 10000]

getGrowthExpense(age) ==
    IF age >= 12 /\ age <= 14 THEN GROWTH_EXPENSES.middleSchool
    ELSE IF age >= 15 /\ age <= 17 THEN GROWTH_EXPENSES.highSchool
    ELSE IF age >= 18 /\ age <= 22 THEN GROWTH_EXPENSES.college
    ELSE 0

getEducationCost(age, mode) ==
    IF mode = "public_private_univ"
    THEN IF age >= 3 /\ age <= 5 THEN EDUCATION_COSTS.public.kindergarten
         ELSE IF age >= 6 /\ age <= 11 THEN EDUCATION_COSTS.public.elementary
         ELSE IF age >= 12 /\ age <= 14 THEN EDUCATION_COSTS.public.juniorHigh
         ELSE IF age >= 15 /\ age <= 17 THEN EDUCATION_COSTS.public.highSchool
         ELSE IF age >= 18 /\ age <= 21 THEN EDUCATION_COSTS.private.university
         ELSE 0
    ELSE LET costs == EDUCATION_COSTS[mode]
         IN  IF age >= 3 /\ age <= 5 THEN costs.kindergarten
             ELSE IF age >= 6 /\ age <= 11 THEN costs.elementary
             ELSE IF age >= 12 /\ age <= 14 THEN costs.juniorHigh
             ELSE IF age >= 15 /\ age <= 17 THEN costs.highSchool
             ELSE IF age >= 18 /\ age <= 21 THEN costs.university
             ELSE 0

(***************************************************************************)
(* Optional values (null or a value)                                       *)
(***************************************************************************)
None == [some |-> FALSE]

Some(x) == [some |-> TRUE, val |-> x]

\* opt || dflt for an object-valued opt
OrElse(opt, dflt) == IF opt.some THEN opt.val ELSE dflt

\* mutant of JSONClone: the same object is handed back
JSONCloneShared(x, ref) == [val |-> x, ref |-> ref]

\* JSON.parse(JSON.stringify(x)) of plain data x held by ref: equal contents in
\* a fresh object that nothing else refers to
JSONClone(x, ref) == [val |-> x, ref |-> "fresh"]

\* the locals of a loop iteration before the first iteration has run
NoMonth == [i |-> -1]

Min(a, b) == IF a < b THEN a ELSE b

Max(a, b) == IF a > b THEN a ELSE b

(***************************************************************************)
(* Projection engine: runSimulation                                        *)
(***************************************************************************)
\* Math.pow(1 + s.inflationRate / 100, yearsPassed)
InflationFactor(s, yearsPassed) ==
    RPow(RAdd(R(1), RNorm(s.inflationRate, 100)), yearsPassed)

\* A. one iteration of appData.families.forEach: the income of member f
MemberIncome(f, s, simFamilies, yearsPassed, inflationFactor, currentMonthNum) ==
    LET familyIncomes == s.familyIncomes
        none == [regular |-> R(0), severance |-> R(0), hasPlan |-> FALSE,
                 isRetired |-> FALSE, justRetired |-> FALSE, threw |-> FALSE]
    IN  IF f.id \notin DOMAIN familyIncomes THEN none
        ELSE
        LET inc == familyIncomes[f.id]
            retireAge == OrDefault(inc.retirementAge, 60)
            k == FindId(simFamilies, f.id)
        IN  \* simFamilies.find(...) is undefined: reading .age throws
            IF k = 0 THEN [none EXCEPT !.hasPlan = TRUE, !.threw = TRUE]
            ELSE
            LET currentSimAge == simFamilies[k].age
                isRetired == currentSimAge >= retireAge
                justRetiredThisMonth ==
                    isRetired /\ currentSimAge = retireAge /\ currentMonthNum = 1
                yearlyIncrease == OrDefault(s.salaryIncreaseAmount, 0) * yearsPassed
                adjustedMonthly == inc.monthly + yearlyIncrease
                ratio == IF inc.monthly > 0 THEN RNorm(adjustedMonthly, inc.monthly)
                         ELSE R(1)
                adjustedBonus == RMul(R(inc.bonus), ratio)
                regular ==
                    IF isRetired THEN RMul(R(inc.pension), inflationFactor)
                    ELSE RAdd(R(adjustedMonthly),
                              IF inc.bonus > 0 THEN RDivInt(adjustedBonus, 12) ELSE R(0))
                severance ==
                    IF justRetiredThisMonth THEN RMul(R(inc.severance), inflationFactor)
                    ELSE R(0)
            IN  [regular |-> regular, severance |-> severance, hasPlan |-> TRUE,
                 isRetired |-> isRetired, justRetired |-> justRetiredThisMonth,
                 threw |-> FALSE]

\* the per-member income records of one month, in the order of appData.families
MemberIncomes(families, s, simFamilies, yearsPassed, inflationFactor, currentMonthNum) ==
    [k \in 1..Len(families) |->
        MemberIncome(families[k], s, simFamilies, yearsPassed, inflationFactor,
                     currentMonthNum)]

RECURSIVE SumIncome(_, _)
SumIncome(incomes, k) ==
    IF k > Len(incomes) THEN R(0)
    ELSE RAdd(RAdd(incomes[k].regular, incomes[k].severance), SumIncome(incomes, k + 1))

\* mutant of AdvanceAges: a first simulated month that is a January counts too
AdvanceAgesFirstMonthToo(simFamilies, currentMonthNum, i) ==
    IF currentMonthNum = 1
    THEN [k \in 1..Len(simFamilies) |->
            [simFamilies[k] EXCEPT !.age = simFamilies[k].age + 1]]
    ELSE simFamilies

\* C. simFamilies.forEach(f => f.age++) on a simulated January after the first month
AdvanceAges(simFamilies, currentMonthNum, i) ==
    IF currentMonthNum = 1 /\ i > 0
    THEN [k \in 1..Len(simFamilies) |->
            [simFamilies[k] EXCEPT !.age = simFamilies[k].age + 1]]
    ELSE simFamilies

\* C-1. one iteration of simFamilies.forEach: the costs of a dependent
DependentCost(f, s, inflationFactor) ==
    IF f.age <= s.childIndependenceAge
    THEN [edu |-> getEducationCost(f.age, s.educationMode),
          grow |-> RMul(R(getGrowthExpense(f.age)), inflationFactor),
          allowance |-> IF f.age >= 18 /\ f.age <= 21 /\ s.univHousingType = "away"
                        THEN RMul(R(OrDefault(s.univAllowance, 100000)), inflationFactor)
                        ELSE R(0),
          active |-> 1]
    ELSE [edu |-> 0, grow |-> R(0), allowance |-> R(0), active |-> 0]

RECURSIVE DependentCosts(_, _, _)
DependentCosts(simFamilies, s, inflationFactor) ==
    IF simFamilies = <<>>
    THEN [edu |-> 0, grow |-> R(0), allowance |-> R(0), active |-> 0]
    ELSE LET h == DependentCost(Head(simFamilies), s, inflationFactor)
             r == DependentCosts(Tail(simFamilies), s, inflationFactor)
         IN  [edu |-> h.edu + r.edu, grow |-> RAdd(h.grow, r.grow),
              allowance |-> RAdd(h.allowance, r.allowance),
              active |-> h.active + r.active]

\* mutant of LivingCost: the size of the household is not looked at
LivingCostAnyHousehold(baseLivingCost, inflationFactor, s, fams, activeChildren) ==
    LET currentMonthExpense == RMul(R(baseLivingCost), inflationFactor)
    IN  IF activeChildren = 0
        THEN RSub(currentMonthExpense,
                  RMul(currentMonthExpense, RNorm(s.costReductionRate, 100)))
        ELSE currentMonthExpense

\* C-2. the base living cost charged this month
LivingCost(baseLivingCost, inflationFactor, s, fams, activeChildren) ==
    LET currentMonthExpense == RMul(R(baseLivingCost), inflationFactor)
    IN  IF Len(fams) > 1 /\ activeChildren = 0
        THEN LET reductionAmount ==
                     RMul(currentMonthExpense, RNorm(s.costReductionRate, 100))
             IN  RSub(currentMonthExpense, reductionAmount)
        ELSE currentMonthExpense

\* mutant of VehicleSuppressed: the check looks for the year the age is reached
VehicleSuppressedThatYear(exp, simFamilies, s) ==
    /\ Len(simFamilies) > 0
    /\ simFamilies[1].age = s.licenseReturnAge
    /\ \/ exp.category = "vehicle"
       \/ Includes(exp.name, <<"U+8ECA">>)
       \/ Includes(exp.name, <<"C", "a", "r">>)
       \/ Includes(exp.name, <<"U+4FDD", "U+967A">>)

\* D-1. the licence-return check on one recurring expense; a character outside
\* ASCII is written as its code point ("U+8ECA" is the character for "car",
\* "U+4FDD" "U+967A" the word for "insurance")
VehicleSuppressed(exp, simFamilies, s) ==
    /\ Len(simFamilies) > 0
    /\ simFamilies[1].age >= s.licenseReturnAge
    /\ \/ exp.category = "vehicle"
       \/ Includes(exp.name, <<"U+8ECA">>)
       \/ Includes(exp.name, <<"C", "a", "r">>)
       \/ Includes(exp.name, <<"U+4FDD", "U+967A">>)

\* D-1. the firing test of the loop on one recurring expense
FiresInLoop(exp, currentMonthYM) ==
    /\ LocaleCompare(currentMonthYM, exp.startYM) >= 0
    /\ LET diffM == diffMonths(currentMonthYM, exp.startYM)
           intervalMonths == exp.intervalYears * 12
       IN  intervalMonths > 0 /\ diffM % intervalMonths = 0

\* D-1. one iteration of recurring.forEach: is exp charged this month
RecurringCharged(exp, currentMonthYM, simFamilies, s) ==
    /\ ~VehicleSuppressed(exp, simFamilies, s)
    /\ FiresInLoop(exp, currentMonthYM)

RECURSIVE RecurringDue(_, _, _, _)
RecurringDue(recurring, currentMonthYM, simFamilies, s) ==
    IF recurring = <<>> THEN 0
    ELSE (IF RecurringCharged(Head(recurring), currentMonthYM, simFamilies, s)
          THEN Head(recurring).amount ELSE 0)
         + RecurringDue(Tail(recurring), currentMonthYM, simFamilies, s)

\* mutant of LoanActive: the month endYM is left out
LoanActiveEndExclusive(loan, currentMonthYM) ==
    StrLeq(loan.startYM, currentMonthYM) /\ LocaleCompare(currentMonthYM, loan.endYM) < 0

\* D-2. one iteration of loans.forEach: is the loan paid this month
LoanActive(loan, currentMonthYM) ==
    StrLeq(loan.startYM, currentMonthYM) /\ StrLeq(currentMonthYM, loan.endYM)

RECURSIVE LoanDue(_, _)
LoanDue(loans, currentMonthYM) ==
    IF loans = <<>> THEN 0
    ELSE (IF LoanActive(Head(loans), currentMonthYM) THEN Head(loans).monthlyAmount ELSE 0)
         + LoanDue(Tail(loans), currentMonthYM)

\* E. one iteration of appData.futureEvents.forEach: does evt fire this month
\* mutant of EventFires: the month of the event is not looked at
EventFiresAnyMonth(evt, simFamilies, currentMonthNum) ==
    LET k == FindId(simFamilies, evt.familyId)
    IN  /\ k # 0
        /\ simFamilies[k].age = evt.targetAge

EventFires(evt, simFamilies, currentMonthNum) ==
    LET k == FindId(simFamilies, evt.familyId)
    IN  /\ k # 0
        /\ simFamilies[k].age = evt.targetAge
        /\ evt.targetMonth = currentMonthNum

RECURSIVE EventDue(_, _, _)
EventDue(events, simFamilies, currentMonthNum) ==
    IF events = <<>> THEN 0
    ELSE (IF EventFires(Head(events), simFamilies, currentMonthNum)
          THEN Head(events).amount ELSE 0)
         + EventDue(Tail(events), simFamilies, currentMonthNum)

\* F. the monthly rate used for the profit: (s.investmentYield || 0) / 100 / 12
MonthlyRate(s) == RNorm(OrDefault(s.investmentYield, 0), 1200)

\* mutant of InvestmentStep: the contribution is added before the growth
InvestmentStepGrowsContribution(currentInvestment, investAmount, s, i) ==
    IF i = 0
    THEN RAdd(currentInvestment, R(investAmount))
    ELSE RMul(RAdd(currentInvestment, R(investAmount)),
              RAdd(R(1), RNorm(s.investmentYield, 1200)))

\* F. the investment balance after this month's contribution
InvestmentStep(currentInvestment, investAmount, s, i) ==
    IF i = 0
    THEN RAdd(currentInvestment, R(investAmount))
    ELSE RAdd(RMul(currentInvestment, RAdd(R(1), RNorm(s.investmentYield, 1200))),
              R(investAmount))

\* F. const investmentProfit = (currentInvestment - investAmount) * monthlyRate,
\* read after currentInvestment has been updated
InvestmentProfit(newInvestment, investAmount, s) ==
    RMul(RSub(newInvestment, R(investAmount)), MonthlyRate(s))

\* G. the two updates of currentTotal
TotalStep(currentTotal, monthlyFlow, investAmount, investmentProfit) ==
    LET afterFirst == RAdd(currentTotal, RAdd(monthlyFlow, R(investAmount)))
    IN  RAdd(afterFirst, RAdd(RAdd(monthlyFlow, R(investAmount)), investmentProfit))

\* mutant of CrashStep: the month is recorded at every negative total
CrashStepLatest(crashMonth, currentTotal, currentMonthYM) ==
    IF RIsNeg(currentTotal) THEN currentMonthYM ELSE crashMonth

\* the crash check after the month's total is stored
CrashStep(crashMonth, currentTotal, currentMonthYM) ==
    IF RIsNeg(currentTotal) /\ crashMonth = NULL THEN currentMonthYM ELSE crashMonth

(***************************************************************************)
(* Core-balance estimator: calculateNormalizedCoreBalance                  *)
(***************************************************************************)
\* 2-B. one iteration of appData.loans.forEach
EstLoanPaid(loan, currentMonthYM) ==
    StrLeq(loan.startYM, currentMonthYM) /\ StrLeq(currentMonthYM, loan.endYM)

RECURSIVE EstPaidLoans(_, _)
EstPaidLoans(loans, currentMonthYM) ==
    IF loans = <<>> THEN 0
    ELSE (IF EstLoanPaid(Head(loans), currentMonthYM) THEN Head(loans).monthlyAmount
          ELSE 0)
         + EstPaidLoans(Tail(loans), currentMonthYM)

\* 3. one iteration of appData.futureEvents.forEach
EstEventPaid(evt, families, nowYear, currentMonthYM) ==
    LET k == FindId(families, evt.familyId)
        currYear == currentMonthYM[1]
        currMonth == currentMonthYM[2]
    IN  /\ k # 0
        /\ LET eventYear == (nowYear - families[k].age) + evt.targetAge
           IN  eventYear = currYear /\ evt.targetMonth = currMonth

RECURSIVE EstPaidEvents(_, _, _, _)
EstPaidEvents(events, families, nowYear, currentMonthYM) ==
    IF events = <<>> THEN 0
    ELSE (IF EstEventPaid(Head(events), families, nowYear, currentMonthYM)
          THEN Head(events).amount ELSE 0)
         + EstPaidEvents(Tail(events), families, nowYear, currentMonthYM)

\* the sorted copy and the empty list of surpluses, or the early return of null
EstBegin ==
    LET balances == SortByMonth(appData.monthlyBalances, 1)
    IN  IF Len(balances) < 2
        THEN [pc |-> "done", balances |-> balances, i |-> 1, coreSurpluses |-> <<>>,
              m |-> NoMonth, result |-> None]
        ELSE [pc |-> "loop", balances |-> balances, i |-> 1, coreSurpluses |-> <<>>,
              m |-> NoMonth, result |-> None]

\* one iteration of for (let i = 1; i < balances.length; i++); i is the
\* JavaScript index, so balances[i] is e.balances[i + 1] here
EstIteration(e) ==
    LET balances == e.balances
        i == e.i
        currentMonthYM == balances[i + 1].month
        prevTotal == balances[i].total
        currentTotal == balances[i + 1].total
        actualChange == currentTotal - prevTotal
        paidRecurring ==
            getRecurringExpenseForMonth(currentMonthYM, appData.recurringExpenses)
        paidLoans == IF appData.loans.some
                     THEN EstPaidLoans(appData.loans.val, currentMonthYM) ELSE 0
        paidEvents == EstPaidEvents(appData.futureEvents, appData.families, now[1],
                                    currentMonthYM)
        surplus == actualChange + paidRecurring + paidEvents + paidLoans
    IN  [e EXCEPT !.i = i + 1,
                  !.coreSurpluses = Append(@, surplus),
                  !.m = [i |-> i, ym |-> currentMonthYM, actualChange |-> actualChange,
                         paidRecurring |-> paidRecurring, paidLoans |-> paidLoans,
                         paidEvents |-> paidEvents]]

RECURSIVE SeqSum(_)
SeqSum(xs) == IF xs = <<>> THEN 0 ELSE Head(xs) + SeqSum(Tail(xs))

\* mutant of EstResult: the sum is divided by the number of balances
EstResultPerBalance(coreSurpluses) ==
    IF Len(coreSurpluses) = 0 THEN 0
    ELSE MathRound(RNorm(SeqSum(coreSurpluses), Len(coreSurpluses) + 1))

\* the average of the surpluses, rounded
EstResult(coreSurpluses) ==
    IF Len(coreSurpluses) = 0 THEN 0
    ELSE MathRound(RNorm(SeqSum(coreSurpluses), Len(coreSurpluses)))

\* mutant of StartingTotal: the oldest record is taken
StartingTotalOfOldest(balances) ==
    IF Len(balances) > 0 THEN balances[1].total ELSE 0

\* let currentTotal = 0; if (balances.length > 0) currentTotal =
\* balances[balances.length - 1].total
StartingTotal(balances) ==
    IF Len(balances) > 0 THEN balances[Len(balances)].total ELSE 0

\* the preamble of runSimulation up to the month loop, app standing for
\* appData; each custom argument is None (null) or Some(value)
SimBeginOn(app, customSettings, customFamilies, customLoans, customRecurring) ==
    LET s == OrElse(customSettings, app.settings)
        fams == OrElse(customFamilies, app.families)
        loans == IF customLoans.some THEN customLoans ELSE app.loans
        recurring == OrElse(customRecurring, app.recurringExpenses)
        balances == SortByMonth(app.monthlyBalances, 1)
        predictionYears == s.predictionYears
        maxMonths == Min(predictionYears * 12, MAX_PREDICTION_MONTHS)
        hasHistory == Len(balances) > 0
        currentTotal == StartingTotal(balances)
        \* new Date().toISOString().slice(0, 7) when there is no history
        latestMonth == IF hasHistory THEN balances[Len(balances)].month ELSE now
        startDate == addMonth(parseYearMonth(latestMonth))
        famsRef == IF customFamilies.some THEN "custom" ELSE "appData.families"
        clone == JSONClone(fams, famsRef)
        simFamilies == clone.val
        growthOf(k) ==
            IF k # 1 /\ simFamilies[k].age <= s.childIndependenceAge
            THEN getGrowthExpense(simFamilies[k].age) ELSE 0
        initialGrowthCostSum ==
            LET RECURSIVE Sum(_)
                Sum(k) == IF k > Len(simFamilies) THEN 0 ELSE growthOf(k) + Sum(k + 1)
            IN  Sum(1)
        baseLivingCost ==
            Max(0, OrDefault(s.currentLivingCost, 250000) - initialGrowthCostSum)
    IN  [pc |-> "loop", s |-> s, fams |-> fams, loans |-> loans, recurring |-> recurring,
         maxMonths |-> maxMonths, i |-> 0,
         currentTotal |-> R(currentTotal), currentInvestment |-> R(0),
         currentMonthDate |-> startDate, crashMonth |-> NULL,
         labels |-> <<latestMonth>>, data |-> <<R(currentTotal)>>,
         investmentData |-> <<R(0)>>,
         simFamilies |-> simFamilies, simFamiliesRef |-> clone.ref, call |-> 0,
         baseLivingCost |-> baseLivingCost,
         totalLivingCost |-> R(0), totalEduCost |-> 0, totalLoanCost |-> 0,
         totalRecurringCost |-> 0, totalInvestCost |-> 0,
         m |-> NoMonth, sevMonths |-> {}, evtMonths |-> {}, result |-> None]

SimBegin(customSettings, customFamilies, customLoans, customRecurring) ==
    SimBeginOn(appData, customSettings, customFamilies, customLoans, customRecurring)

\* one iteration of the month loop of runSimulation, app standing for appData
MonthIterationOn(app, sm) ==
    LET s == sm.s
        i == sm.i
        currentMonthYM == formatDateToYM(sm.currentMonthDate)
        currentMonthNum == sm.currentMonthDate.mon + 1
        yearsPassed == i \div 12
        inflationFactor == InflationFactor(s, yearsPassed)
        \* A. income, read against the ages as they are at this point
        incomes == MemberIncomes(app.families, s, sm.simFamilies, yearsPassed,
                                 inflationFactor, currentMonthNum)
        threw == \E k \in 1..Len(incomes) : incomes[k].threw
        monthlyIncomeTotal == SumIncome(incomes, 1)
        \* C. age advance
        simFamilies == AdvanceAges(sm.simFamilies, currentMonthNum, i)
        \* C-1. dependents
        dep == DependentCosts(simFamilies, s, inflationFactor)
        \* B, C-2. base living cost
        currentMonthExpense ==
            LivingCost(sm.baseLivingCost, inflationFactor, s, sm.fams, dep.active)
        \* D-1, D-2, E
        recurringDue == RecurringDue(sm.recurring, currentMonthYM, simFamilies, s)
        loanDue == IF sm.loans.some THEN LoanDue(sm.loans.val, currentMonthYM) ELSE 0
        eventDue == EventDue(app.futureEvents, simFamilies, currentMonthNum)
        \* F. investment
        investAmount == OrDefault(s.investmentMonthly, 0)
        monthlyFlow ==
            RSub(RSub(RSub(RSub(RSub(RSub(RSub(RSub(monthlyIncomeTotal,
                R(dep.edu)), dep.grow), dep.allowance), currentMonthExpense),
                R(recurringDue)), R(loanDue)), R(eventDue)), R(investAmount))
        currentInvestment == InvestmentStep(sm.currentInvestment, investAmount, s, i)
        investmentProfit == InvestmentProfit(currentInvestment, investAmount, s)
        \* G. total
        currentTotal == TotalStep(sm.currentTotal, monthlyFlow, investAmount,
                                  investmentProfit)
        locals == [i |-> i, ym |-> currentMonthYM, monthNum |-> currentMonthNum,
                   yearsPassed |-> yearsPassed, inflationFactor |-> inflationFactor,
                   incomes |-> incomes, income |-> monthlyIncomeTotal,
                   agesBefore |-> [k \in 1..Len(sm.simFamilies) |-> sm.simFamilies[k].age],
                   edu |-> dep.edu, grow |-> dep.grow, allowance |-> dep.allowance,
                   activeChildren |-> dep.active, living |-> currentMonthExpense,
                   recurringDue |-> recurringDue, loanDue |-> loanDue,
                   charged |-> {k \in 1..Len(sm.recurring) :
                                   RecurringCharged(sm.recurring[k], currentMonthYM,
                                                    simFamilies, s)},
                   eventDue |-> eventDue, investAmount |-> investAmount,
                   monthlyFlow |-> monthlyFlow, investmentProfit |-> investmentProfit,
                   prevTotal |-> sm.currentTotal, prevInvestment |-> sm.currentInvestment,
                   prevCrashMonth |-> sm.crashMonth]
    IN  IF threw THEN [sm EXCEPT !.pc = "threw"]
        ELSE [sm EXCEPT
                !.i = i + 1,
                !.simFamilies = simFamilies,
                !.currentInvestment = currentInvestment,
                !.currentTotal = currentTotal,
                !.data = Append(@, currentTotal),
                !.investmentData = Append(@, currentInvestment),
                !.labels = Append(@, currentMonthYM),
                !.crashMonth = CrashStep(@, currentTotal, currentMonthYM),
                !.currentMonthDate = addMonth(@),
                !.totalLivingCost =
                    RAdd(RAdd(RAdd(@, dep.grow), dep.allowance), currentMonthExpense),
                !.totalEduCost = @ + dep.edu,
                !.totalLoanCost = @ + loanDue,
                !.totalRecurringCost = @ + recurringDue,
                !.totalInvestCost = @ + investAmount,
                !.m = locals,
                !.sevMonths = @ \cup
                    {<<app.families[k].id, i>> : k \in
                        {j \in 1..Len(incomes) : incomes[j].justRetired}},
                !.evtMonths = @ \cup
                    {<<app.futureEvents[k].id, i>> : k \in
                        {j \in 1..Len(app.futureEvents) :
                            EventFires(app.futureEvents[j], simFamilies,
                                       currentMonthNum)}}]

MonthIteration(sm) == MonthIterationOn(appData, sm)

\* what runSimulation returns after the loop
SimResult(sm) ==
    [labels |-> sm.labels, data |-> sm.data, investmentData |-> sm.investmentData,
     crashMonth |-> sm.crashMonth,
     breakdown |-> [living |-> MathRound(sm.totalLivingCost),
                    education |-> sm.totalEduCost,
                    loan |-> sm.totalLoanCost,
                    recurring |-> sm.totalRecurringCost,
                    investment |-> sm.totalInvestCost]]

\* the monthly yield is a fraction whose powers outgrow 32-bit integers within
\* a year of compounding (multiples of 600 % a year give halves, which do not)
FractionalYield(s) ==
    /\ OrDefault(s.investmentMonthly, 0) # 0
    /\ s.investmentYield % 600 # 0

\* the part of a run the exact arithmetic of the model can follow
WithinExactRange(sm) == FractionalYield(sm.s) => sm.i < MaxFracMonths

SimIdle == [pc |-> "idle"]

EstIdle == [pc |-> "idle"]

\* nothing awaits the promise behind a button
NoWaiter == [fn |-> "none"]

\* the modal as the page loads: hidden, no handlers
NoModal == [hidden |-> TRUE, cancelHidden |-> TRUE, ok |-> NoWaiter, cancel |-> NoWaiter]

\* the page before the first render
NoDom == [screen |-> "dashboard", tab |-> "family-account", form |-> FALSE,
          inputs |-> <<>>, reading |-> None]

NoCall == [fn |-> "none"]

\* renderDashboard calls calculateCoreMonthlyChange(), which returns
\* calculateNormalizedCoreBalance()
EstStart ==
    /\ est.pc = "idle"
    /\ est' = EstBegin
    /\ UNCHANGED <<appData, stored, modal, now, dom, sim, ret, uuids>>

EstPair ==
    /\ est.pc = "loop"
    /\ est.i < Len(est.balances)
    /\ est' = EstIteration(est)
    /\ UNCHANGED <<appData, stored, modal, now, dom, sim, ret, uuids>>

EstFinish ==
    /\ est.pc = "loop"
    /\ est.i >= Len(est.balances)
    /\ est' = [est EXCEPT !.pc = "done", !.result = Some(EstResult(est.coreSurpluses))]
    /\ UNCHANGED <<appData, stored, modal, now, dom, sim, ret, uuids>>

\* renderDashboard then calls runSimulation() with the live data
SimStart ==
    /\ est.pc = "done"
    /\ sim.pc = "idle"
    /\ sim' = SimBegin(None, None, None, None)
    /\ UNCHANGED <<appData, stored, modal, now, dom, est, ret, uuids>>

\* the f.age++ of the loop writes into the roster simFamilies refers to: the
\* private copy, or whatever object shares its identity (call = 0 is the run on
\* the live data, call = k the run on the k-th scenario)
WriteShared(data, sm) ==
    IF sm.simFamiliesRef = "appData.families"
    THEN [data EXCEPT !.families = sm.simFamilies]
    ELSE IF sm.simFamiliesRef = "custom" /\ sm.call > 0
    THEN [data EXCEPT !.scenarios =
            Some([@.val EXCEPT ![sm.call].families = sm.simFamilies])]
    ELSE data

\* for (let i = 0; i < maxMonths; i++) { ... }
SimMonth ==
    /\ sim.pc = "loop"
    /\ sim.i < sim.maxMonths
    /\ WithinExactRange(sim)
    /\ LET sm == MonthIteration(sim)
       IN  /\ sim' = sm
           /\ appData' = WriteShared(appData, sm)
    /\ UNCHANGED <<stored, modal, now, dom, est, ret, uuids>>

\* the loop has ended: result.crashMonth, result.breakdown, return result
SimFinish ==
    /\ sim.pc = "loop"
    /\ sim.i >= sim.maxMonths
    /\ sim' = [sim EXCEPT !.pc = "done", !.result = Some(SimResult(sim))]
    /\ UNCHANGED <<appData, stored, modal, now, dom, est, ret, uuids>>

\* renderDashboard, appData.scenarios.forEach: the next saved scenario is
\* projected with runSimulation(sc.settings, sc.families, sc.loans, sc.recurring)
ScenarioStart ==
    /\ sim.pc = "done"
    /\ appData.scenarios.some
    /\ sim.call < Len(appData.scenarios.val)
    /\ LET sc == appData.scenarios.val[sim.call + 1]
       IN  sim' = [SimBegin(Some(sc.settings), Some(sc.families), Some(sc.loans),
                            Some(sc.recurring))
                     EXCEPT !.call = sim.call + 1]
    /\ UNCHANGED <<appData, stored, modal, now, dom, est, ret, uuids>>

(***************************************************************************)
(* Inputs of the projection                                                *)
(***************************************************************************)
Member(id, age) == [id |-> id, name |-> id, age |-> age, birthMonth |-> 4]

Rosters ==
    { <<>>,
      <<Member("f1", 59)>>,
      <<Member("f1", 59), Member("f2", 22)>>,
      <<Member("f1", 40), Member("f2", 17)>> }

NoIncomes == <<>>

HeadPlan ==
    [id \in {"f1"} |-> [monthly |-> 300000, bonus |-> 1200000, retirementAge |-> 60,
                        severance |-> 2000000, pension |-> 150000]]

IncomePlans == {NoIncomes, HeadPlan}

DefaultSettings ==
    [predictionYears |-> 30, familyIncomes |-> NoIncomes, currentLivingCost |-> 250000,
     inflationRate |-> 1, investmentMonthly |-> 30000, investmentYield |-> 4,
     educationMode |-> "public", childIndependenceAge |-> 22, costReductionRate |-> 20,
     licenseReturnAge |-> 75, univHousingType |-> "home", univAllowance |-> 100000,
     salaryIncreaseAmount |-> 0]

\* rate profiles whose runs stay exact over MaxShortYears years
FlatRates ==
    [DefaultSettings EXCEPT !.inflationRate = 0, !.investmentMonthly = 0,
                            !.investmentYield = 0]

InflatedRates ==
    [DefaultSettings EXCEPT !.inflationRate = 10, !.investmentMonthly = 10000,
                            !.investmentYield = 0, !.salaryIncreaseAmount = 5000,
                            !.univHousingType = "away",
                            !.educationMode = "public_private_univ"]

\* 600 % a year is a half a month: exact over one year
HalfYield ==
    [DefaultSettings EXCEPT !.inflationRate = 0, !.investmentMonthly = 20480,
                            !.investmentYield = 600, !.predictionYears = 1]

\* the worked example: 30000 a month at 12 % a year
OnePercentYield ==
    [DefaultSettings EXCEPT !.inflationRate = 0, !.investmentMonthly = 30000,
                            !.investmentYield = 12, !.predictionYears = 1]

\* a horizon beyond the cap of MAX_PREDICTION_MONTHS
CapYears == MAX_PREDICTION_MONTHS \div 12 + 1

SettingsInputs ==
    { [r EXCEPT !.predictionYears = y] :
        r \in {FlatRates, InflatedRates}, y \in 1..MaxShortYears }
    \cup {HalfYield, OnePercentYield}

Balance(ym, total) == [month |-> ym, total |-> total, accounts |-> [a \in {"a1"} |-> total]]

\* the balance history as stored and the wall clock
Starts ==
    { [balances |-> <<>>, now |-> <<2025, 12>>],
      [balances |-> <<>>, now |-> <<2026, 1>>],
      [balances |-> <<Balance(<<2025, 11>>, 1000000)>>, now |-> <<2026, 1>>],
      [balances |-> <<Balance(<<2025, 12>>, 100000), Balance(<<2025, 11>>, 5000000)>>,
       now |-> <<2026, 1>>],
      [balances |-> <<Balance(<<2025, 1>>, 1000000), Balance(<<2025, 2>>, 1100000)>>,
       now |-> <<2026, 1>>],
      [balances |-> <<Balance(<<2025, 12>>, 100000), Balance(<<2025, 9>>, 300001),
                      Balance(<<2025, 10>>, 200000)>>,
       now |-> <<2026, 1>>] }

NoDues == [loans |-> <<>>, recurring |-> <<>>, events |-> <<>>]

Dues ==
    { NoDues,
      [loans |-> <<[id |-> "l1", name |-> <<"l">>, monthlyAmount |-> 500000,
                    startYM |-> <<2026, 2>>, endYM |-> <<2026, 4>>],
                   [id |-> "l2", name |-> <<"m">>, monthlyAmount |-> 80000,
                    startYM |-> <<2025, 10>>, endYM |-> <<2025, 12>>]>>,
       recurring |-> <<[id |-> "r1", name |-> <<"r", "e", "n", "t">>, amount |-> 50000,
                        intervalYears |-> 1, startYM |-> <<2026, 3>>,
                        category |-> "housing"],
                       [id |-> "r2", name |-> <<"U+8ECA", "U+691C">>, amount |-> 120000,
                        intervalYears |-> 2, startYM |-> <<2023, 12>>,
                        category |-> "vehicle"],
                       [id |-> "r3", name |-> <<"t", "a", "x">>, amount |-> 7000,
                        intervalYears |-> 3, startYM |-> <<2025, 2>>,
                        category |-> "other"]>>,
       events |-> <<[id |-> "e1", name |-> <<"e">>, amount |-> 300000, familyId |-> "f1",
                     targetAge |-> 60, targetMonth |-> 4],
                    [id |-> "e2", name |-> <<"g">>, amount |-> 700000, familyId |-> "f9",
                     targetAge |-> 30, targetMonth |-> 2],
                    [id |-> "e3", name |-> <<"h">>, amount |-> 40000, familyId |-> "f1",
                     targetAge |-> 58, targetMonth |-> 12]>>] }

\* the data model a projection input describes
SimInput(start, roster, plan, settings, dues) ==
    [accounts |-> <<[id |-> "a1", name |-> <<"a">>]>>,
     families |-> roster,
     recurringExpenses |-> dues.recurring,
     loans |-> Some(dues.loans),
     futureEvents |-> dues.events,
     monthlyBalances |-> start.balances,
     settings |-> [settings EXCEPT !.familyIncomes = plan],
     scenarios |-> None]

\* events of a member aged 59 in the last two years a horizon of CapYears
\* years would hold
CapDues ==
    [NoDues EXCEPT !.events =
        <<[id |-> "e8", name |-> <<"p">>, amount |-> 1000, familyId |-> "f1",
           targetAge |-> 59 + CapYears - 2, targetMonth |-> 12],
          [id |-> "e9", name |-> <<"q">>, amount |-> 1000, familyId |-> "f1",
           targetAge |-> 59 + CapYears - 1, targetMonth |-> 12]>>]

\* the long run: a horizon beyond the cap, with rates that keep integers
LongInputs ==
    { SimInput(start, <<Member("f1", 59)>>, NoIncomes,
               [FlatRates EXCEPT !.predictionYears = CapYears],
               dues) :
        start \in {st \in Starts : st.now = <<2026, 1>>}, dues \in {NoDues, CapDues} }

InitSim ==
    /\ \E start \in Starts :
          /\ now = start.now
          /\ \/ \E roster \in Rosters, plan \in IncomePlans,
                   settings \in SettingsInputs, dues \in Dues :
                    /\ DOMAIN plan \subseteq {roster[k].id : k \in 1..Len(roster)}
                    /\ appData = SimInput(start, roster, plan, settings, dues)
             \/ appData \in {inp \in LongInputs : inp.monthlyBalances = start.balances}
    /\ stored = [data |-> None, full |-> FALSE]
    /\ modal = NoModal
    /\ dom = NoDom
    /\ sim = SimIdle
    /\ est = EstIdle
    /\ ret = NoCall
    /\ uuids = {}

NextSim == EstStart \/ EstPair \/ EstFinish \/ SimStart \/ SimMonth \/ SimFinish

SpecSim == InitSim /\ [][NextSim]_vars

(***************************************************************************)
(* Projections across the licence-return age                               *)
(***************************************************************************)
\* a record written before the category select existed has no category:
\* reading it gives undefined, which equals no tag
NoCategory == "undefined"

Shaken ==
    [id |-> "v1", name |-> <<"s", "h", "a", "k", "e", "n">>, amount |-> 120000,
     intervalYears |-> 1, startYM |-> <<2024, 12>>, category |-> "vehicle"]

\* the recurring expenses of the runs across the licence-return age: tagged
\* vehicle, tagged otherwise with a keyword in the name, and without a tag
LicenseRecurring ==
    LET Tyres ==
            [id |-> "v2", name |-> <<"t", "y", "r", "e", "s">>, amount |-> 40000,
             intervalYears |-> 1, startYM |-> <<2025, 3>>, category |-> "vehicle"]
        Carport ==
            [id |-> "h1", name |-> <<"C", "a", "r", "p", "o", "r", "t">>,
             amount |-> 50000, intervalYears |-> 1, startYM |-> <<2025, 3>>,
             category |-> "housing"]
        FireInsurance ==
            [id |-> "o1", name |-> <<"U+706B", "U+707D", "U+4FDD", "U+967A">>,
             amount |-> 30000, intervalYears |-> 1, startYM |-> <<2026, 2>>,
             category |-> "insurance"]
        LegacyCar ==
            [id |-> "n1", name |-> <<"U+8ECA", "U+691C">>, amount |-> 90000,
             intervalYears |-> 2, startYM |-> <<2025, 3>>, category |-> NoCategory]
        LegacyRent ==
            [id |-> "n2", name |-> <<"r", "e", "n", "t">>, amount |-> 7000,
             intervalYears |-> 1, startYM |-> <<2026, 3>>, category |-> NoCategory]
    IN  { <<Shaken, Carport>>, <<Tyres, FireInsurance, LegacyCar>>,
          <<LegacyRent, Shaken, Tyres>> }

\* the rosters: the head reaches the age in the first simulated January, has
\* reached it at the start, or there is no head
LicenseRosters ==
    { <<>>, <<Member("f1", 59)>>, <<Member("f1", 60), Member("f2", 22)>> }

InitLicense ==
    /\ \E start \in Starts, roster \in LicenseRosters, y \in 1..MaxShortYears,
          recurring \in LicenseRecurring :
          /\ now = start.now
          /\ appData = SimInput(start, roster, NoIncomes,
                                [FlatRates EXCEPT !.predictionYears = y,
                                                  !.licenseReturnAge = 60],
                                [NoDues EXCEPT !.recurring = recurring])
    /\ stored = [data |-> None, full |-> FALSE]
    /\ modal = NoModal
    /\ dom = NoDom
    /\ sim = SimIdle
    /\ est = EstIdle
    /\ ret = NoCall
    /\ uuids = {}

SpecLicense == InitLicense /\ [][NextSim]_vars

(***************************************************************************)
(* Projections over configured living costs                                *)
(***************************************************************************)
\* settings.currentLivingCost as stored: nothing, less than the growth
\* expense of one dependent, and an ordinary amount
LivingCosts == {0, 5000, 200000}

InitLiving ==
    /\ \E start \in Starts, roster \in Rosters, living \in LivingCosts :
          /\ now = start.now
          /\ appData = SimInput(start, roster, NoIncomes,
                                [FlatRates EXCEPT !.predictionYears = 1,
                                                  !.currentLivingCost = living],
                                NoDues)
    /\ stored = [data |-> None, full |-> FALSE]
    /\ modal = NoModal
    /\ dom = NoDom
    /\ sim = SimIdle
    /\ est = EstIdle
    /\ ret = NoCall
    /\ uuids = {}

SpecLiving == InitLiving /\ [][NextSim]_vars

(***************************************************************************)
(* Projections over balance histories                                      *)
(***************************************************************************)
\* the for loop of runSimulation run to its end
RECURSIVE RunLoop(_, _)
RunLoop(app, sm) ==
    IF sm.pc = "loop" /\ sm.i < sm.maxMonths
    THEN RunLoop(app, MonthIterationOn(app, sm))
    ELSE sm

\* runSimulation() on the data model app
runSimulationOn(app) == SimResult(RunLoop(app, SimBeginOn(app, None, None, None, None)))

InitHistory ==
    /\ \E start \in Starts, settings \in {FlatRates, InflatedRates},
          y \in 1..MaxShortYears, dues \in Dues :
          /\ now = start.now
          /\ appData = SimInput(start, <<Member("f1", 59), Member("f2", 22)>>, HeadPlan,
                                [settings EXCEPT !.predictionYears = y], dues)
    /\ stored = [data |-> None, full |-> FALSE]
    /\ modal = NoModal
    /\ dom = NoDom
    /\ sim = SimIdle
    /\ est = EstIdle
    /\ ret = NoCall
    /\ uuids = {}

SpecHistory == InitHistory /\ [][NextSim]_vars

(***************************************************************************)
(* The dashboard with saved scenarios                                      *)
(***************************************************************************)
\* mutant of Snapshot: the snapshot refers to the live objects
SnapshotShared(id, data) ==
    [id |-> id, name |-> <<"s">>,
     settings |-> data.settings,
     families |-> data.families,
     loans |-> OrElse(data.loans, <<>>),
     recurring |-> data.recurringExpenses,
     linked |-> {"settings", "families"}
                  \cup (IF data.loans.some THEN {"loans"} ELSE {})
                  \cup {"recurringExpenses"}]

\* the snapshot handleAddScenario takes of the data model; linked names the
\* live objects (keys of appData) a part of the snapshot is the same object as
Snapshot(id, data) ==
    LET settings == JSONClone(data.settings, "settings")
        families == JSONClone(data.families, "families")
        loans == JSONClone(OrElse(data.loans, <<>>),
                           IF data.loans.some THEN "loans" ELSE "fresh")
        recurring == JSONClone(data.recurringExpenses, "recurringExpenses")
    IN  [id |-> id, name |-> <<"s">>,
         settings |-> settings.val, families |-> families.val,
         loans |-> loans.val, recurring |-> recurring.val,
         linked |-> {settings.ref, families.ref, loans.ref, recurring.ref} \ {"fresh"}]

\* the scenario lists of a data model: a snapshot of the data as it is, a
\* snapshot taken a year earlier with a one-year horizon, and an imported
\* scenario whose roster is empty although its settings hold the income plans
ScenarioLists(data) ==
    LET same == Snapshot("s1", data)
        older == [Snapshot("s2", data) EXCEPT
                    !.families = [k \in 1..Len(data.families) |->
                                    [data.families[k] EXCEPT !.age = @ - 1]],
                    !.settings = [@ EXCEPT !.predictionYears = 1]]
        rosterless == [Snapshot("s3", data) EXCEPT !.families = <<>>]
    IN  { <<same>>, <<older, same>>, <<rosterless>> }

InitScenario ==
    /\ \E start \in {st \in Starts : Len(st.balances) \in {1, 3} \/ st.now = <<2025, 12>>},
          roster \in {r \in Rosters : r # <<>>}, plan \in IncomePlans,
          y \in 1..MaxShortYears, dues \in Dues :
          LET data == SimInput(start, roster, plan,
                               [FlatRates EXCEPT !.predictionYears = y], dues)
          IN  /\ now = start.now
              /\ \E list \in ScenarioLists(data) :
                    appData = [data EXCEPT !.scenarios = Some(list)]
    /\ stored = [data |-> None, full |-> FALSE]
    /\ modal = NoModal
    /\ dom = NoDom
    /\ sim = SimIdle
    /\ est = EstIdle
    /\ ret = NoCall
    /\ uuids = {}

NextScenario ==
    \/ EstStart
    \/ EstPair
    \/ EstFinish
    \/ SimStart
    \/ SimMonth
    \/ SimFinish
    \/ ScenarioStart

SpecScenario == InitScenario /\ [][NextScenario]_vars

(***************************************************************************)
(* Claims about the projection and the estimator (checked under SpecSim)   *)
(***************************************************************************)
\* the number of a calendar month on the line of all months
MonthIndex(ym) == ym[1] * 12 + (ym[2] - 1)

\* a month of the loop has run in the current state
MonthRan == sim.pc \in {"loop", "done"} /\ sim.m.i >= 0

\* C1: in every simulated month the total net worth changes by exactly that
\* month's income minus that month's expenses (living cost, dependent and
\* education costs, recurring dues, loan dues, event dues) plus the investment
\* profit: the cash flow is counted once and the contribution does not change
\* net worth.
C1_NetWorthChangesByCashFlowOnce ==
    MonthRan =>
        LET m == sim.m
            expenses ==
                RAdd(RAdd(RAdd(m.living, R(m.edu)), RAdd(m.grow, m.allowance)),
                     R(m.recurringDue + m.loanDue + m.eventDue))
        IN  RSub(sim.currentTotal, m.prevTotal)
                = RAdd(RSub(m.income, expenses), m.investmentProfit)

\* C2: when a member with an income plan reaches retirementAge in a simulated
\* January, the severance is added in that January (and in no other month).
C2_SeveranceInTheJanuaryAgeIsReached ==
    MonthRan =>
        \A k \in 1..Len(appData.families) :
            LET f == appData.families[k]
                plans == sim.s.familyIncomes
                j == FindId(sim.simFamilies, f.id)
            IN  (/\ f.id \in DOMAIN plans
                 /\ j # 0
                 /\ sim.m.monthNum = 1
                 /\ sim.m.agesBefore[j] < OrDefault(plans[f.id].retirementAge, 60)
                 /\ sim.simFamilies[j].age = OrDefault(plans[f.id].retirementAge, 60))
                => /\ sim.m.incomes[k].justRetired
                   /\ {x \in sim.sevMonths : x[1] = f.id} = {<<f.id, sim.m.i>>}

\* the positions of the projected months (not the seed) whose total is negative
NegativeMonths == {k \in 2..Len(sim.data) : sim.data[k][1] < 0}

\* C3: crashMonth is the label of the first projected month whose running net
\* worth is negative, null when no projected month is negative, and once set
\* it is not changed or cleared by any later month, recovery or not; the
\* returned crashMonth is that value.
C3_CrashMonthIsFirstNegativeMonth ==
    sim.pc \in {"loop", "done"} =>
        /\ IF NegativeMonths = {} THEN sim.crashMonth = NULL
           ELSE \E k \in NegativeMonths :
                   /\ \A j \in NegativeMonths : k <= j
                   /\ sim.crashMonth = sim.labels[k]
        /\ (sim.m.i >= 0 /\ sim.m.prevCrashMonth # NULL)
               => sim.crashMonth = sim.m.prevCrashMonth
        /\ sim.pc = "done" => sim.result.val.crashMonth = sim.crashMonth

\* C3 witness: a run that crashed, went on and ended with a non-negative total
C3_Witness ==
    /\ sim.pc = "done"
    /\ sim.crashMonth # NULL
    /\ sim.data[Len(sim.data)][1] >= 0
    /\ Cardinality(NegativeMonths) >= 2

\* the stored balance records with no later record
LatestRecords ==
    {k \in 1..Len(appData.monthlyBalances) :
        \A j \in 1..Len(appData.monthlyBalances) :
            MonthIndex(appData.monthlyBalances[j].month)
                <= MonthIndex(appData.monthlyBalances[k].month)}

\* C4: runSimulation ends after min(predictionYears*12, MAX_PREDICTION_MONTHS)
\* iterations and returns labels, data and investmentData of that length + 1;
\* index 0 is the seed (the latest historical month and its total, or the
\* current month and 0 without history, investment 0) and every later label is
\* the month after the label before it.
C4_SeriesLengthAndLabels ==
    LET horizon == IF sim.s.predictionYears * 12 < MAX_PREDICTION_MONTHS
                   THEN sim.s.predictionYears * 12 ELSE MAX_PREDICTION_MONTHS
    IN
    /\ sim.pc = "loop" =>
          /\ sim.i <= horizon
          /\ Len(sim.labels) = sim.i + 1
    /\ sim.pc = "done" =>
          LET r == sim.result.val
          IN  /\ Len(r.labels) = horizon + 1
              /\ Len(r.data) = horizon + 1
              /\ Len(r.investmentData) = horizon + 1
              /\ r.investmentData[1] = R(0)
              /\ IF appData.monthlyBalances = <<>>
                 THEN r.labels[1] = now /\ r.data[1] = R(0)
                 ELSE \E k \in LatestRecords :
                         /\ r.labels[1] = appData.monthlyBalances[k].month
                         /\ r.data[1] = R(appData.monthlyBalances[k].total)
              /\ \A k \in 1..horizon :
                    /\ MonthIndex(r.labels[k + 1]) = MonthIndex(r.labels[k]) + 1
                    /\ r.labels[k + 1][2] \in 1..12

\* C4 witness: a finished run cut at the cap, seeded from an unsorted history
C4_Witness ==
    /\ sim.pc = "done"
    /\ sim.s.predictionYears * 12 > MAX_PREDICTION_MONTHS
    /\ Len(sim.result.val.labels) = MAX_PREDICTION_MONTHS + 1
    /\ Len(appData.monthlyBalances) >= 2

\* the annual yield divided by 100 and 12, in lowest terms
YieldFraction == RNorm(sim.s.investmentYield, 1200)

\* C5: the investment balance is the contribution after the first simulated
\* month and previousBalance * (1 + annualYield/100/12) + contribution after
\* every later one; 30000 a month at 12 % gives 30000 and then 60300.
C5_InvestmentCompounding ==
    MonthRan =>
        LET m == sim.m
            c == sim.s.investmentMonthly
            cur == sim.currentInvestment
            prev == m.prevInvestment
            a == YieldFraction[1]
            b == YieldFraction[2]
        IN  /\ sim.investmentData[Len(sim.investmentData)] = cur
            /\ m.i = 0 => cur = R(c)
            /\ m.i > 0 =>
                  cur[1] * prev[2] * b = cur[2] * (prev[1] * (b + a) + c * b * prev[2])
            /\ (c = 30000 /\ sim.s.investmentYield = 12) =>
                  /\ sim.investmentData[2] = R(30000)
                  /\ Len(sim.investmentData) >= 3 => sim.investmentData[3] = R(60300)

\* C5 witness: two months of the worked example have run
C5_Witness ==
    /\ MonthRan
    /\ sim.s.investmentMonthly = 30000
    /\ sim.s.investmentYield = 12
    /\ sim.m.i = 1
    /\ sim.currentInvestment = R(60300)

\* C6 is checked under SpecRecurring, below.

\* the sum of the monthly amounts of the loans whose window, as a range of
\* month numbers, contains ym
RECURSIVE LoanWindowSum(_, _, _)
LoanWindowSum(loans, ym, k) ==
    IF k = 0 THEN 0
    ELSE LoanWindowSum(loans, ym, k - 1)
         + (IF /\ MonthIndex(loans[k].startYM) <= MonthIndex(ym)
               /\ MonthIndex(ym) <= MonthIndex(loans[k].endYM)
            THEN loans[k].monthlyAmount ELSE 0)

\* C7: in every simulated month and in every historical month the estimator
\* scans, a loan contributes its monthlyAmount exactly when
\* startYM <= month <= endYM, both ends included, and nothing otherwise.
C7_LoanWindowInclusive ==
    /\ MonthRan =>
          sim.m.loanDue = LoanWindowSum(sim.loans.val, sim.m.ym, Len(sim.loans.val))
    /\ (est.pc \in {"loop", "done"} /\ est.m.i >= 1) =>
          est.m.paidLoans
              = LoanWindowSum(appData.loans.val, est.m.ym, Len(appData.loans.val))

\* C7 witness: the projection is in the last month of a loan's window and the
\* estimator has scanned the last month of another loan's window
C7_Witness ==
    /\ MonthRan
    /\ \E k \in 1..Len(sim.loans.val) :
          sim.loans.val[k].endYM = sim.m.ym /\ sim.m.loanDue = sim.loans.val[k].monthlyAmount
    /\ est.m.i >= 1
    /\ \E k \in 1..Len(appData.loans.val) :
          /\ appData.loans.val[k].endYM = est.m.ym
          /\ est.m.paidLoans = appData.loans.val[k].monthlyAmount

\* an expense is due in ym: ym is startYM plus a whole number of intervals
DueByRule(exp, ym) ==
    /\ exp.intervalYears > 0
    /\ ym[2] = exp.startYM[2]
    /\ \E n \in 0..(Abs(ym[1] - exp.startYM[1])) :
          ym[1] = exp.startYM[1] + n * exp.intervalYears

RECURSIVE DueSum(_, _, _)
DueSum(exps, ym, k) ==
    IF k = 0 THEN 0
    ELSE DueSum(exps, ym, k - 1) + (IF DueByRule(exps[k], ym) THEN exps[k].amount ELSE 0)

\* the amounts of the events whose derived year and month are ym
RECURSIVE EventSumAt(_, _, _)
EventSumAt(events, ym, k) ==
    IF k = 0 THEN 0
    ELSE EventSumAt(events, ym, k - 1)
         + (IF \E j \in 1..Len(appData.families) :
                  /\ appData.families[j].id = events[k].familyId
                  /\ now[1] - appData.families[j].age + events[k].targetAge = ym[1]
                  /\ events[k].targetMonth = ym[2]
            THEN events[k].amount ELSE 0)

\* everything tracked as paid in month ym
TrackedAt(ym) ==
    DueSum(appData.recurringExpenses, ym, Len(appData.recurringExpenses))
    + LoanWindowSum(appData.loans.val, ym, Len(appData.loans.val))
    + EventSumAt(appData.futureEvents, ym, Len(appData.futureEvents))

\* the stored record of the earliest month
EarliestRecords ==
    {k \in 1..Len(appData.monthlyBalances) :
        \A j \in 1..Len(appData.monthlyBalances) :
            MonthIndex(appData.monthlyBalances[k].month)
                <= MonthIndex(appData.monthlyBalances[j].month)}

RECURSIVE TrackedAfterFirst(_, _)
TrackedAfterFirst(first, k) ==
    IF k = 0 THEN 0
    ELSE TrackedAfterFirst(first, k - 1)
         + (IF k = first THEN 0 ELSE TrackedAt(appData.monthlyBalances[k].month))

\* C8: the estimator returns null with fewer than two balances; otherwise the
\* average over the consecutive pairs of the month-sorted balances of
\* (total_n - total_n-1) plus the recurring, loan and event amounts of month n,
\* rounded to the nearest integer (a half goes up). The changes telescope to
\* last total - first total. 1000000 then 1100000 with nothing tracked: 100000.
C8_CoreBalanceIsRoundedAverage ==
    est.pc = "done" =>
        LET hist == appData.monthlyBalances
            n == Len(hist) - 1
        IN  IF Len(hist) < 2 THEN est.result = None
            ELSE /\ est.result.some
                 /\ \E first \in EarliestRecords, last \in LatestRecords :
                       LET total == hist[last].total - hist[first].total
                                    + TrackedAfterFirst(first, Len(hist))
                           r == est.result.val
                       IN  2 * n * r <= 2 * total + n /\ 2 * total + n < 2 * n * r + 2 * n
                 /\ (/\ hist = <<Balance(<<2025, 1>>, 1000000), Balance(<<2025, 2>>, 1100000)>>
                     /\ TrackedAt(<<2025, 2>>) = 0)
                        => est.result.val = 100000

\* C8 witness: the estimator has returned 100000 for the worked example
C8_Witness ==
    /\ est.pc = "done"
    /\ appData.monthlyBalances
           = <<Balance(<<2025, 1>>, 1000000), Balance(<<2025, 2>>, 1100000)>>
    /\ appData.recurringExpenses = <<>>
    /\ est.result = Some(100000)

\* the discount of C-2 applied in the month that has just run
DiscountApplied ==
    /\ MonthRan
    /\ Len(sim.fams) > 1
    /\ \A k \in 1..Len(sim.simFamilies) :
          sim.simFamilies[k].age > sim.s.childIndependenceAge

\* the baseline scaled by the inflation of the month that has just run
InflatedBaseline ==
    RMul(R(sim.baseLivingCost),
         RPow(RNorm(100 + sim.s.inflationRate, 100), sim.m.i \div 12))

\* the base living cost charged in the month that has just run is as C9 says
C9_LivingCostCharged ==
    MonthRan =>
        sim.m.living =
            IF DiscountApplied
            THEN RMul(InflatedBaseline, RNorm(100 - sim.s.costReductionRate, 100))
            ELSE InflatedBaseline

MaxRecurring == 2

RecurringInputs ==
    { [id |-> "r", name |-> <<"r">>, amount |-> a, intervalYears |-> iv,
       startYM |-> st, category |-> "other"] :
        a \in {50000, 7000}, iv \in {1, 2, 3}, st \in {<<2025, 3>>, <<2024, 11>>} }

\* the months asked about: the start months of the inputs and their neighbours,
\* before the starts and up to two intervals after them
TargetMonths == {<<y, m>> : y \in 2023..2029, m \in {2, 3, 4, 10, 11, 12}}

RECURSIVE SeqsUpTo(_, _)
SeqsUpTo(S, n) ==
    IF n = 0 THEN {<<>>}
    ELSE SeqsUpTo(S, n - 1)
         \cup {Append(q, x) : q \in {p \in SeqsUpTo(S, n - 1) : Len(p) = n - 1}, x \in S}

InitRecurring ==
    /\ \E exps \in SeqsUpTo(RecurringInputs, MaxRecurring) :
          appData = SimInput([balances |-> <<>>], <<>>, NoIncomes, DefaultSettings,
                             [loans |-> <<>>, recurring |-> exps, events |-> <<>>])
    /\ now = <<2026, 1>>
    /\ stored = [data |-> None, full |-> FALSE]
    /\ modal = NoModal
    /\ dom = NoDom
    /\ sim = SimIdle
    /\ est = EstIdle
    /\ ret = NoCall
    /\ uuids = {}

\* getRecurringExpenseForMonth(targetYM, ...) is called on the live data
CallRecurring ==
    /\ \E targetYM \in TargetMonths :
          ret' = [fn |-> "getRecurringExpenseForMonth", targetYM |-> targetYM,
                  value |-> getRecurringExpenseForMonth(targetYM,
                                                        appData.recurringExpenses)]
    /\ UNCHANGED <<appData, stored, modal, now, dom, sim, est, uuids>>

NextRecurring == CallRecurring

SpecRecurring == InitRecurring /\ [][NextRecurring]_vars

\* C6: getRecurringExpenseForMonth(targetYM) is the sum of the amounts of the
\* expenses with startYM <= targetYM, the same calendar month and a year gap
\* divisible by intervalYears; start 2025-03 every 2 years is due in 2025-03,
\* 2027-03 and 2029-03 and in no other month (not 2024-03, not 2026-03).
C6_RecurringDueRule ==
    ret.fn = "getRecurringExpenseForMonth" =>
        LET exps == appData.recurringExpenses
        IN  /\ ret.value = DueSum(exps, ret.targetYM, Len(exps))
            /\ (/\ Len(exps) = 1
                /\ exps[1].startYM = <<2025, 3>>
                /\ exps[1].intervalYears = 2)
                   => (ret.value # 0
                         <=> ret.targetYM \in {<<2025, 3>>, <<2027, 3>>, <<2029, 3>>})

\* C6 witness: the worked example is due in 2027-03
C6_Witness ==
    /\ ret.fn = "getRecurringExpenseForMonth"
    /\ Len(appData.recurringExpenses) = 1
    /\ appData.recurringExpenses[1].startYM = <<2025, 3>>
    /\ appData.recurringExpenses[1].intervalYears = 2
    /\ ret.targetYM = <<2027, 3>>
    /\ ret.value = appData.recurringExpenses[1].amount

(***************************************************************************)
(* The data store and its handlers                                         *)
(***************************************************************************)
\* the initial value of appData
DefaultAppData ==
    [accounts |-> <<>>, families |-> <<>>, recurringExpenses |-> <<>>,
     loans |-> Some(<<>>), futureEvents |-> <<>>, monthlyBalances |-> <<>>,
     settings |-> DefaultSettings, scenarios |-> None]

\* mutant of showMessage: a plain message leaves the OK handler in place
showMessageKeepsHandler(md, isConfirm, waiter) ==
    [hidden |-> FALSE, cancelHidden |-> ~isConfirm,
     ok |-> IF isConfirm THEN waiter ELSE md.ok,
     cancel |-> IF isConfirm THEN waiter ELSE md.cancel]

\* showMessage(title, message, isConfirm): the modal is shown; the OK button
\* resolves the new promise, the cancel button only when isConfirm (otherwise it
\* keeps its previous handler and is hidden); waiter is what awaits the promise
showMessage(md, isConfirm, waiter) ==
    [hidden |-> FALSE, cancelHidden |-> ~isConfirm,
     ok |-> waiter, cancel |-> IF isConfirm THEN waiter ELSE md.cancel]

\* mutant of saveData: the error of a full storage is not caught
saveDataUncaught(data, st, md) ==
    IF ~st.full THEN <<[st EXCEPT !.data = Some(data)], md, FALSE>>
    ELSE <<st, md, TRUE>>

\* saveData(): localStorage.setItem throws when the storage is full; the error
\* is caught and reported through the modal. Gives the new <<stored, modal>>
\* and whether an exception leaves saveData
saveData(data, st, md) ==
    IF ~st.full THEN <<[st EXCEPT !.data = Some(data)], md, FALSE>>
    ELSE <<st, showMessage(md, FALSE, NoWaiter), FALSE>>

\* renderBalanceInput: sorts appData.monthlyBalances in place, newest first, and
\* draws one input per account when there is an account
renderBalanceInput(data, d) ==
    <<[data EXCEPT !.monthlyBalances = SortByMonth(@, -1)],
      [d EXCEPT !.form = Len(data.accounts) > 0,
                !.inputs = IF Len(data.accounts) > 0
                           THEN [k \in 1..Len(data.accounts) |-> data.accounts[k].id]
                           ELSE <<>>]>>

\* renderScreen for the current screen: gives the new <<appData, dom>>; the
\* dashboard, settings and data-management renderers write no data
renderScreen(data, d) ==
    IF d.screen = "balance-input" THEN renderBalanceInput(data, d)
    ELSE <<data, [d EXCEPT !.form = FALSE, !.inputs = <<>>]>>

\* navigate(screenId)
navigate(data, d, screenId) == renderScreen(data, [d EXCEPT !.screen = screenId])

Screens == {"dashboard", "settings", "balance-input", "data-management"}

\* the ids crypto.randomUUID() returns for accounts, in the order it returns them
AccountIds == <<"a1", "a2">>

\* the months picked in the month picker
BalanceMonths == {<<2025, 11>>, <<2025, 12>>}

\* what is typed into a balance input: Some(n) reads as the number n, None is
\* text that Number() turns into NaN
TypedValues == {Some(5), Some(7), None}

\* event handlers run to completion one after the other: none starts while
\* renderDashboard is inside its projections
Quiet == est.pc = "idle" /\ sim.pc = "idle"

\* a nav button is clicked
Navigate ==
    /\ Quiet
    /\ \E screenId \in Screens :
          LET r == navigate(appData, dom, screenId)
          IN  /\ appData' = r[1]
              /\ dom' = r[2]
    /\ ret' = [fn |-> "navigate"]
    /\ UNCHANGED <<stored, modal, now, sim, est, uuids>>

\* the add-account form is submitted
HandleAddAccount ==
    /\ dom.screen = "settings"
    /\ dom.tab = "family-account"
    /\ Cardinality(uuids) < Len(AccountIds)
    /\ \E name \in {<<>>, <<"b", "k">>} :
          IF name # <<>>
          THEN LET id == AccountIds[Cardinality(uuids) + 1]
                   data == [appData EXCEPT
                               !.accounts = Append(@, [id |-> id, name |-> name])]
                   sv == saveData(data, stored, modal)
               IN  /\ appData' = data
                   /\ uuids' = uuids \cup {id}
                   /\ stored' = sv[1]
                   /\ modal' = IF sv[3] THEN sv[2]
                               ELSE showMessage(sv[2], FALSE, NoWaiter)
                   /\ dom' = [dom EXCEPT !.tab = "family-account"]
                   /\ ret' = [fn |-> "handleAddAccount", added |-> Some(id),
                              threw |-> IF sv[3] THEN "saveData" ELSE "none"]
          ELSE /\ UNCHANGED <<appData, stored, modal, dom, uuids>>
               /\ ret' = [fn |-> "handleAddAccount", added |-> None,
                          threw |-> "none"]
    /\ UNCHANGED <<now, sim, est>>

RECURSIVE TypedTotal(_, _)
TypedTotal(typed, k) ==
    IF k = 0 THEN 0 ELSE TypedTotal(typed, k - 1) + typed[k].val

\* handleBalanceInput on the form as rendered; month = NULL is an empty picker
handleBalanceInput(data, st, md, d, month, typed) ==
    IF month = NULL
    THEN [appData |-> data, stored |-> st, dom |-> d, accepted |-> FALSE,
          threw |-> "none", modal |-> showMessage(md, FALSE, NoWaiter)]
    ELSE IF \E k \in 1..Len(typed) : ~typed[k].some
    THEN [appData |-> data, stored |-> st, dom |-> d, accepted |-> FALSE,
          threw |-> "none", modal |-> showMessage(md, FALSE, NoWaiter)]
    ELSE
    LET total == TypedTotal(typed, Len(typed))
        accountBalances ==
            [id \in {d.inputs[k] : k \in 1..Len(typed)} |->
                typed[CHOOSE k \in 1..Len(typed) : d.inputs[k] = id].val]
        existingIndex == FindMonth(data.monthlyBalances, month)
        newBalanceItem == [month |-> month, total |-> total, accounts |-> accountBalances]
        placed == IF existingIndex # 0
                  THEN [data.monthlyBalances EXCEPT ![existingIndex] = newBalanceItem]
                  ELSE Append(data.monthlyBalances, newBalanceItem)
        md1 == showMessage(md, FALSE, NoWaiter)
        sorted == [data EXCEPT !.monthlyBalances = SortByMonth(placed, 1)]
        sv == saveData(sorted, st, md1)
        rendered == renderBalanceInput(sorted, d)
    IN  IF sv[3]
        THEN [appData |-> sorted, stored |-> sv[1], dom |-> d, accepted |-> TRUE,
              threw |-> "saveData", modal |-> sv[2]]
        ELSE [appData |-> rendered[1], stored |-> sv[1], dom |-> rendered[2],
              accepted |-> TRUE, threw |-> "none", modal |-> sv[2]]

\* the balance form is submitted
HandleBalanceInput ==
    /\ dom.form
    /\ \E month \in BalanceMonths \cup {NULL},
          typed \in [1..Len(dom.inputs) -> TypedValues] :
          LET r == handleBalanceInput(appData, stored, modal, dom, month, typed)
          IN  /\ appData' = r.appData
              /\ stored' = r.stored
              /\ modal' = r.modal
              /\ dom' = r.dom
              /\ ret' = [fn |-> "handleBalanceInput", month |-> month,
                         accepted |-> r.accepted, threw |-> r.threw,
                         typed |-> IF r.accepted
                                   THEN [k \in 1..Len(typed) |-> typed[k].val] ELSE <<>>,
                         inputs |-> IF r.accepted THEN dom.inputs ELSE <<>>,
                         sizeBefore |-> Len(appData.monthlyBalances),
                         existed |-> \E k \in 1..Len(appData.monthlyBalances) :
                                        appData.monthlyBalances[k].month = month]
    /\ UNCHANGED <<now, sim, est, uuids>>

\* the keys of the records a delete button exists for on the current screen
Deletable(collection) ==
    IF collection = "monthlyBalances" /\ dom.screen = "balance-input"
    THEN {appData.monthlyBalances[k].month : k \in 1..Len(appData.monthlyBalances)}
    ELSE IF collection = "accounts" /\ dom.screen = "settings"
              /\ dom.tab = "family-account"
    THEN {appData.accounts[k].id : k \in 1..Len(appData.accounts)}
    ELSE IF collection = "families" /\ dom.screen = "settings"
              /\ dom.tab = "family-account"
    THEN {appData.families[k].id : k \in 1..Len(appData.families)}
    ELSE IF collection = "loans" /\ dom.screen = "settings" /\ dom.tab = "recurring"
    THEN {OrElse(appData.loans, <<>>)[k].id :
             k \in 1..Len(OrElse(appData.loans, <<>>))}
    ELSE IF collection = "recurringExpenses" /\ dom.screen = "settings"
              /\ dom.tab = "recurring"
    THEN {appData.recurringExpenses[k].id : k \in 1..Len(appData.recurringExpenses)}
    ELSE IF collection = "futureEvents" /\ dom.screen = "settings"
              /\ dom.tab = "future-event"
    THEN {appData.futureEvents[k].id : k \in 1..Len(appData.futureEvents)}
    ELSE IF collection = "scenarios" /\ dom.screen = "settings"
              /\ dom.tab = "sim-config"
    THEN {OrElse(appData.scenarios, <<>>)[k].id :
             k \in 1..Len(OrElse(appData.scenarios, <<>>))}
    ELSE {}

\* deleteItem up to its await: the confirmation is shown
DeleteItem ==
    /\ Quiet
    /\ \E collection \in {"monthlyBalances", "accounts", "families", "loans",
                          "recurringExpenses", "futureEvents", "scenarios"} :
          \E id \in Deletable(collection) :
             modal' = showMessage(modal, TRUE,
                                  [fn |-> "deleteItem", collection |-> collection,
                                   id |-> id, isMonth |-> collection = "monthlyBalances"])
    /\ ret' = [fn |-> "deleteItem"]
    /\ UNCHANGED <<appData, stored, now, dom, sim, est, uuids>>

\* appData[key] is assigned a new object: a scenario that referred to the old
\* one keeps the old one
unlink(data, key) ==
    IF ~data.scenarios.some THEN data
    ELSE [data EXCEPT !.scenarios =
            Some([k \in 1..Len(@.val) |-> [@.val[k] EXCEPT !.linked = @ \ {key}]])]

\* appData[collection] = appData[collection].filter(item => item.month !== id)
\* or item.id !== id: filter builds a new array
filterOut(data, collection, id, isMonth) ==
    IF isMonth
    THEN [data EXCEPT ![collection] = SelectSeq(@, LAMBDA item : item.month # id)]
    ELSE IF collection \in {"loans", "scenarios"}
    THEN unlink([data EXCEPT ![collection] =
                    Some(SelectSeq(@.val, LAMBDA item : item.id # id))],
                collection)
    ELSE unlink([data EXCEPT ![collection] = SelectSeq(@, LAMBDA item : item.id # id)],
                collection)

\* deleteItem after its await, with the value the promise resolved to
deleteItemResume(data, st, md, d, w, confirmed) ==
    IF ~confirmed
    THEN [appData |-> data, stored |-> st, modal |-> md, dom |-> d,
          threw |-> "none"]
    ELSE
    LET filtered == filterOut(data, w.collection, w.id, w.isMonth)
        sv == saveData(filtered, st, md)
    IN  IF sv[3]
        THEN [appData |-> filtered, stored |-> sv[1], dom |-> d, modal |-> sv[2],
              threw |-> "saveData"]
        ELSE IF w.collection = "monthlyBalances"
        THEN LET r == navigate(filtered, d, "balance-input")
             IN  [appData |-> r[1], stored |-> sv[1], dom |-> r[2],
                  modal |-> showMessage(sv[2], FALSE, NoWaiter), threw |-> "none"]
        ELSE IF d.screen = "settings"
        THEN [appData |-> filtered, stored |-> sv[1], dom |-> d,
              modal |-> showMessage(sv[2], FALSE, NoWaiter), threw |-> "none"]
        \* setSettingsTab finds no settings container and throws
        ELSE [appData |-> filtered, stored |-> sv[1], dom |-> d, modal |-> sv[2],
              threw |-> "setSettingsTab"]

\* appData = { ...appData, ...importedData }: the keys of the document replace
\* those of the data model, the other keys of the data model stay
spread(data, importedData) ==
    [key \in DOMAIN data |->
        IF key \in DOMAIN importedData THEN importedData[key] ELSE data[key]]

\* mutant of importResume: the answer to the confirmation is not looked at
importResumeWhateverAnswer(data, st, md, d, w, confirmed) ==
    LET merged == spread(data, w.importedData)
        sv == saveData(merged, st, md)
        r == navigate(merged, d, "dashboard")
    IN  [appData |-> r[1], stored |-> sv[1], dom |-> r[2],
         modal |-> showMessage(sv[2], FALSE, NoWaiter), threw |-> "none"]

\* reader.onload of handleImportData after its await
importResume(data, st, md, d, w, confirmed) ==
    IF ~confirmed
    THEN [appData |-> data, stored |-> st, modal |-> md, dom |-> d, threw |-> "none"]
    ELSE
    LET merged == spread(data, w.importedData)
        sv == saveData(merged, st, md)
        r == navigate(merged, d, "dashboard")
    IN  [appData |-> r[1], stored |-> sv[1], dom |-> r[2],
         modal |-> showMessage(sv[2], FALSE, NoWaiter), threw |-> "none"]

\* the object handleClearData assigns to appData: it has no loans and no
\* scenarios key, and its settings hold predictionYears only
ClearedAppData ==
    [accounts |-> <<>>, families |-> <<>>, recurringExpenses |-> <<>>,
     loans |-> None, futureEvents |-> <<>>, monthlyBalances |-> <<>>,
     settings |-> [predictionYears |-> 30], scenarios |-> None]

\* handleClearData after its await: localStorage.removeItem, the assignment,
\* navigate('dashboard'), showMessage
clearResume(data, st, md, d, w, confirmed) ==
    IF ~confirmed
    THEN [appData |-> data, stored |-> st, modal |-> md, dom |-> d, threw |-> "none"]
    ELSE
    LET r == navigate(ClearedAppData, d, "dashboard")
    IN  [appData |-> r[1], stored |-> [st EXCEPT !.data = None], dom |-> r[2],
         modal |-> showMessage(md, FALSE, NoWaiter), threw |-> "none"]

\* the function awaiting the clicked button goes on
resume(data, st, md, d, w, confirmed) ==
    IF w.fn = "deleteItem" THEN deleteItemResume(data, st, md, d, w, confirmed)
    ELSE IF w.fn = "import" THEN importResume(data, st, md, d, w, confirmed)
    ELSE IF w.fn = "clear" THEN clearResume(data, st, md, d, w, confirmed)
    ELSE [appData |-> data, stored |-> st, modal |-> md, dom |-> d,
          threw |-> "none"]

\* the OK button of the modal is clicked
ClickOk ==
    /\ Quiet
    /\ ~modal.hidden
    /\ LET r == resume(appData, stored, [modal EXCEPT !.hidden = TRUE], dom,
                       modal.ok, TRUE)
       IN  /\ appData' = r.appData
           /\ stored' = r.stored
           /\ modal' = r.modal
           /\ dom' = r.dom
    /\ ret' = [fn |-> "ok", resumed |-> modal.ok,
               threw |-> resume(appData, stored, [modal EXCEPT !.hidden = TRUE],
                                dom, modal.ok, TRUE).threw]
    /\ UNCHANGED <<now, sim, est, uuids>>

\* the cancel button of the modal is clicked
ClickCancel ==
    /\ Quiet
    /\ ~modal.hidden
    /\ ~modal.cancelHidden
    /\ LET r == resume(appData, stored, [modal EXCEPT !.hidden = TRUE], dom,
                       modal.cancel, FALSE)
       IN  /\ appData' = r.appData
           /\ stored' = r.stored
           /\ modal' = r.modal
           /\ dom' = r.dom
    /\ ret' = [fn |-> "cancel", resumed |-> modal.cancel]
    /\ UNCHANGED <<now, sim, est, uuids>>

\* window.onload: loadData() finds nothing stored, navigate('dashboard'); the
\* storage accepts writes or is full
Init ==
    /\ appData = DefaultAppData
    /\ stored \in {[data |-> None, full |-> f] : f \in BOOLEAN}
    /\ modal = NoModal
    /\ now = <<2026, 1>>
    /\ dom = NoDom
    /\ sim = SimIdle
    /\ est = EstIdle
    /\ ret = NoCall
    /\ uuids = {}

Next ==
    \/ Navigate
    \/ HandleAddAccount
    \/ HandleBalanceInput
    \/ DeleteItem
    \/ ClickOk
    \/ ClickCancel

Spec == Init /\ [][Next]_vars

(***************************************************************************)
(* Import of a JSON document                                               *)
(***************************************************************************)
\* the data models an import is made into: the initial one, and one in use
\* with an account, a balance, a member and a saved scenario
ImportTargets ==
    LET used == [DefaultAppData EXCEPT
                    !.accounts = <<[id |-> "a1", name |-> <<"b", "k">>]>>,
                    !.families = <<Member("f1", 40)>>,
                    !.monthlyBalances = <<Balance(<<2025, 11>>, 5)>>]
    IN  { DefaultAppData,
          [used EXCEPT !.scenarios = Some(<<Snapshot("s1", used)>>)] }

\* the documents in the files: the export of a data model that never had a
\* scenario, a document with the two required collections only, one with a
\* scenario, and one without families
ImportDocuments ==
    LET other == [DefaultAppData EXCEPT
                    !.accounts = <<[id |-> "a2", name |-> <<"c">>]>>,
                    !.families = <<Member("f2", 17)>>,
                    !.settings = [DefaultSettings EXCEPT !.predictionYears = 10]]
        keysOf(data, keys) == [key \in keys |-> data[key]]
    IN  { keysOf(other, DOMAIN other \ {"scenarios"}),
          keysOf(other, {"accounts", "families"}),
          keysOf([other EXCEPT !.scenarios = Some(<<Snapshot("s2", other)>>)],
                 DOMAIN other),
          keysOf(other, {"accounts", "settings"}) }

\* the files that can be chosen: text that is not JSON, or a JSON document
ImportFiles ==
    {[json |-> FALSE]} \cup {[json |-> TRUE, importedData |-> doc] : doc \in ImportDocuments}

\* JSON.parse of the text of a file: the document, or None when it throws
JSONParse(file) == IF file.json THEN Some(file.importedData) ELSE None

\* importedData.accounts && importedData.families
HasRequiredKeys(importedData) ==
    /\ "accounts" \in DOMAIN importedData
    /\ "families" \in DOMAIN importedData

\* the import button is clicked: without a file a message, with one the
\* FileReader starts reading it
HandleImportData ==
    /\ dom.screen = "data-management"
    /\ ~dom.reading.some
    /\ \E file \in ImportFiles \cup {None} :
          IF file = None
          THEN /\ modal' = showMessage(modal, FALSE, NoWaiter)
               /\ UNCHANGED dom
          ELSE /\ dom' = [dom EXCEPT !.reading = Some(file)]
               /\ UNCHANGED modal
    /\ ret' = [fn |-> "handleImportData"]
    /\ UNCHANGED <<appData, stored, now, sim, est, uuids>>

\* reader.onload up to its await: parse, check the required keys, ask
ReaderOnload ==
    /\ dom.reading.some
    /\ LET parsed == JSONParse(dom.reading.val)
       IN  IF ~parsed.some
           THEN /\ modal' = showMessage(modal, FALSE, NoWaiter)
                /\ ret' = [fn |-> "readerOnload", outcome |-> "parse error"]
           ELSE IF ~HasRequiredKeys(parsed.val)
           THEN /\ modal' = showMessage(modal, FALSE, NoWaiter)
                /\ ret' = [fn |-> "readerOnload", outcome |-> "structure error"]
           ELSE /\ modal' = showMessage(modal, TRUE,
                                        [fn |-> "import", importedData |-> parsed.val])
                /\ ret' = [fn |-> "readerOnload", outcome |-> "asked"]
    /\ dom' = [dom EXCEPT !.reading = None]
    /\ UNCHANGED <<appData, stored, now, sim, est, uuids>>

InitImport ==
    /\ appData \in ImportTargets
    /\ stored = [data |-> Some(appData), full |-> FALSE]
    /\ modal = NoModal
    /\ now = <<2026, 1>>
    /\ dom = NoDom
    /\ sim = SimIdle
    /\ est = EstIdle
    /\ ret = NoCall
    /\ uuids = {}

NextImport ==
    \/ Navigate
    \/ HandleImportData
    \/ ReaderOnload
    \/ ClickOk
    \/ ClickCancel

SpecImport == InitImport /\ [][NextImport]_vars

(***************************************************************************)
(* The shared dialog: deletes, imports and clear-all                       *)
(***************************************************************************)
\* handleClearData up to its await: the confirmation is shown
HandleClearData ==
    /\ dom.screen = "data-management"
    /\ modal' = showMessage(modal, TRUE, [fn |-> "clear"])
    /\ ret' = [fn |-> "handleClearData"]
    /\ UNCHANGED <<appData, stored, now, dom, sim, est, uuids>>

\* window.onload: loadData() finds a data model in use, with an account, a
\* member, a loan and two balances
InitDialog ==
    /\ appData = [DefaultAppData EXCEPT
                     !.accounts = <<[id |-> "a1", name |-> <<"b", "k">>]>>,
                     !.families = <<Member("f1", 40)>>,
                     !.monthlyBalances = <<Balance(<<2025, 11>>, 5),
                                           Balance(<<2025, 12>>, 7)>>]
    /\ stored = [data |-> Some(appData), full |-> FALSE]
    /\ modal = NoModal
    /\ now = <<2026, 1>>
    /\ dom = NoDom
    /\ sim = SimIdle
    /\ est = EstIdle
    /\ ret = NoCall
    /\ uuids = {}

NextDialog ==
    \/ Navigate
    \/ DeleteItem
    \/ HandleImportData
    \/ ReaderOnload
    \/ HandleClearData
    \/ ClickOk
    \/ ClickCancel

SpecDialog == InitDialog /\ [][NextDialog]_vars

(***************************************************************************)
(* Settings, rosters and saved scenarios                                   *)
(***************************************************************************)
\* the ids generateId() returns in a behaviour, in the order it returns them
IdPool == <<"u1", "u2">>

generateId == IdPool[Cardinality(uuids) + 1]

SettingTabs == {"family-account", "recurring", "future-event", "sim-config"}

\* setSettingsTab(tab): currentSettingTab = tab and the tab is drawn into the
\* settings container, which exists on the settings screen only
setSettingsTab(d, tab) == [d EXCEPT !.tab = tab]

\* a tab button of the settings screen is clicked
SetSettingsTab ==
    /\ Quiet
    /\ dom.screen = "settings"
    /\ \E tab \in SettingTabs : dom' = setSettingsTab(dom, tab)
    /\ ret' = [fn |-> "setSettingsTab"]
    /\ UNCHANGED <<appData, stored, modal, now, sim, est, uuids>>

\* appData[key].push(item): the array is extended in place, so every scenario
\* part that is the same array is extended with it
pushInto(data, key, item) ==
    LET part == IF key = "recurringExpenses" THEN "recurring" ELSE key
        live == IF key = "loans"
                THEN [data EXCEPT !.loans = Some(Append(OrElse(@, <<>>), item))]
                ELSE [data EXCEPT ![key] = Append(@, item)]
    IN  IF ~data.scenarios.some THEN live
        ELSE [live EXCEPT !.scenarios =
                Some([k \in 1..Len(@.val) |->
                        IF key \in @.val[k].linked
                        THEN [@.val[k] EXCEPT ![part] = Append(@, item)]
                        ELSE @.val[k]])]

\* what the add forms hold when submitted: filled in, or left empty
FormFills == {"filled", "empty"}

\* an add handler after its push: saveData(), setSettingsTab(tab), showMessage
AfterPush(data, tab, fnName, id) ==
    LET sv == saveData(data, stored, modal)
    IN  /\ appData' = data
        /\ uuids' = uuids \cup {id}
        /\ stored' = sv[1]
        /\ modal' = showMessage(sv[2], FALSE, NoWaiter)
        /\ dom' = setSettingsTab(dom, tab)
        /\ ret' = [fn |-> fnName, added |-> Some(id), threw |-> "none"]

\* the add-family form is submitted; an incomplete form does nothing
HandleAddFamily ==
    /\ Quiet
    /\ dom.screen = "settings"
    /\ dom.tab = "family-account"
    /\ Cardinality(uuids) < Len(IdPool)
    /\ \E fill \in FormFills :
          IF fill = "filled"
          THEN AfterPush(pushInto(appData, "families", Member(generateId, 40)),
                         "family-account", "handleAddFamily", generateId)
          ELSE /\ UNCHANGED <<appData, stored, modal, dom, uuids>>
               /\ ret' = [fn |-> "handleAddFamily", added |-> None, threw |-> "none"]
    /\ UNCHANGED <<now, sim, est>>

\* the add-recurring form is submitted
HandleAddRecurring ==
    /\ Quiet
    /\ dom.screen = "settings"
    /\ dom.tab = "recurring"
    /\ Cardinality(uuids) < Len(IdPool)
    /\ \E fill \in FormFills :
          IF fill = "filled"
          THEN AfterPush(pushInto(appData, "recurringExpenses",
                                  [id |-> generateId, name |-> <<"r">>, amount |-> 50000,
                                   intervalYears |-> 1, startYM |-> <<2026, 3>>,
                                   category |-> "housing"]),
                         "recurring", "handleAddRecurring", generateId)
          ELSE /\ modal' = showMessage(modal, FALSE, NoWaiter)
               /\ UNCHANGED <<appData, stored, dom, uuids>>
               /\ ret' = [fn |-> "handleAddRecurring", added |-> None, threw |-> "none"]
    /\ UNCHANGED <<now, sim, est>>

\* the add-loan form is submitted
HandleAddLoan ==
    /\ Quiet
    /\ dom.screen = "settings"
    /\ dom.tab = "recurring"
    /\ Cardinality(uuids) < Len(IdPool)
    /\ \E fill \in FormFills :
          IF fill = "filled"
          THEN AfterPush(pushInto(appData, "loans",
                                  [id |-> generateId, name |-> <<"l">>,
                                   monthlyAmount |-> 80000, startYM |-> <<2026, 2>>,
                                   endYM |-> <<2026, 4>>]),
                         "recurring", "handleAddLoan", generateId)
          ELSE /\ modal' = showMessage(modal, FALSE, NoWaiter)
               /\ UNCHANGED <<appData, stored, dom, uuids>>
               /\ ret' = [fn |-> "handleAddLoan", added |-> None, threw |-> "none"]
    /\ UNCHANGED <<now, sim, est>>

\* the income plan read from a family block whose fields are left empty
EmptyPlan ==
    [monthly |-> 0, bonus |-> 0, retirementAge |-> 60, severance |-> 0, pension |-> 0]

\* the living cost and the horizons typed into the simulation form; the other
\* fields are submitted as drawn
TypedLiving == {200000}

TypedYears == {1, 51}

\* the simulation-settings form is submitted: appData.settings is a new object
HandleSimConfigUpdate ==
    /\ Quiet
    /\ dom.screen = "settings"
    /\ dom.tab = "sim-config"
    /\ \E years \in TypedYears, living \in TypedLiving :
          IF years > 0 /\ years <= 50
          THEN LET familyIncomes ==
                       [id \in {appData.families[k].id : k \in 1..Len(appData.families)}
                           |-> EmptyPlan]
                   data == unlink([appData EXCEPT !.settings =
                                     [@ EXCEPT !.predictionYears = years,
                                               !.familyIncomes = familyIncomes,
                                               !.currentLivingCost = living]],
                                  "settings")
                   sv == saveData(data, stored, modal)
               IN  /\ appData' = data
                   /\ stored' = sv[1]
                   /\ modal' = showMessage(sv[2], FALSE, NoWaiter)
                   /\ dom' = setSettingsTab(dom, "sim-config")
                   /\ ret' = [fn |-> "handleSimConfigUpdate", accepted |-> TRUE]
          ELSE /\ modal' = showMessage(modal, FALSE, NoWaiter)
               /\ UNCHANGED <<appData, stored, dom>>
               /\ ret' = [fn |-> "handleSimConfigUpdate", accepted |-> FALSE]
    /\ UNCHANGED <<now, sim, est, uuids>>

\* the save-scenario button is clicked; renderSimConfigTab() only builds a
\* string that is dropped
HandleAddScenario ==
    /\ Quiet
    /\ dom.screen = "settings"
    /\ dom.tab = "sim-config"
    /\ Cardinality(uuids) < Len(IdPool)
    /\ \E fill \in FormFills :
          IF fill = "filled"
          THEN LET snapshot == Snapshot(generateId, appData)
                   data == [appData EXCEPT
                               !.scenarios = Some(Append(OrElse(@, <<>>), snapshot))]
                   sv == saveData(data, stored, modal)
               IN  /\ appData' = data
                   /\ uuids' = uuids \cup {generateId}
                   /\ stored' = sv[1]
                   /\ modal' = showMessage(sv[2], FALSE, NoWaiter)
                   /\ ret' = [fn |-> "handleAddScenario", added |-> Some(generateId),
                              threw |-> "none"]
                   /\ UNCHANGED dom
          ELSE /\ modal' = showMessage(modal, FALSE, NoWaiter)
               /\ UNCHANGED <<appData, stored, dom, uuids>>
               /\ ret' = [fn |-> "handleAddScenario", added |-> None, threw |-> "none"]
    /\ UNCHANGED <<now, sim, est>>

\* the add-event form is submitted with a member picked from the select, which
\* lists the families, or with no member picked; an incomplete form does nothing
HandleAddFutureEvent ==
    /\ Quiet
    /\ dom.screen = "settings"
    /\ dom.tab = "future-event"
    /\ Cardinality(uuids) < Len(IdPool)
    /\ \E familyId \in {appData.families[k].id : k \in 1..Len(appData.families)}
                        \cup {""} :
          IF familyId # ""
          THEN AfterPush(pushInto(appData, "futureEvents",
                                  [id |-> generateId, name |-> <<"e">>, amount |-> 300000,
                                   familyId |-> familyId, targetAge |-> 60,
                                   targetMonth |-> 4]),
                         "future-event", "handleAddFutureEvent", generateId)
          ELSE /\ UNCHANGED <<appData, stored, modal, dom, uuids>>
               /\ ret' = [fn |-> "handleAddFutureEvent", added |-> None,
                          threw |-> "none"]
    /\ UNCHANGED <<now, sim, est>>

\* navigate('dashboard') goes on into renderDashboard, whose first projection
\* step is the estimator
RenderDashboard ==
    /\ ret.fn \in {"none", "navigate"}
    /\ dom.screen = "dashboard"
    /\ EstStart

\* renderDashboard returns, or the exception of a projection leaves it: its
\* locals are gone
DashboardDrawn ==
    /\ \/ sim.pc = "threw"
       \/ /\ sim.pc = "done"
          /\ sim.call >= Len(OrElse(appData.scenarios, <<>>))
    /\ sim' = SimIdle
    /\ est' = EstIdle
    /\ ret' = [fn |-> "renderDashboard"]
    /\ UNCHANGED <<appData, stored, modal, now, dom, uuids>>

\* window.onload: loadData() finds a data model whose settings were saved
\* with flat rates and a one-year horizon and nothing else
InitSnapshot ==
    /\ appData = [DefaultAppData EXCEPT
                     !.settings = [FlatRates EXCEPT !.predictionYears = 1]]
    /\ stored = [data |-> Some(appData), full |-> FALSE]
    /\ modal = NoModal
    /\ now = <<2026, 1>>
    /\ dom = NoDom
    /\ sim = SimIdle
    /\ est = EstIdle
    /\ ret = NoCall
    /\ uuids = {}

NextSnapshot ==
    \/ Navigate
    \/ SetSettingsTab
    \/ HandleAddFamily
    \/ HandleAddRecurring
    \/ HandleAddLoan
    \/ HandleSimConfigUpdate
    \/ HandleAddScenario
    \/ DeleteItem
    \/ ClickOk
    \/ ClickCancel
    \/ RenderDashboard
    \/ SimStart
    \/ SimMonth
    \/ SimFinish
    \/ ScenarioStart
    \/ DashboardDrawn

SpecSnapshot == InitSnapshot /\ [][NextSnapshot]_vars

\* the handlers that write families, future events and income plans
NextRefs ==
    \/ Navigate
    \/ SetSettingsTab
    \/ HandleAddFamily
    \/ HandleAddFutureEvent
    \/ HandleSimConfigUpdate
    \/ DeleteItem
    \/ ClickOk
    \/ ClickCancel

SpecRefs == Init /\ [][NextRefs]_vars

(***************************************************************************)
(* Monthly balance history                                                 *)
(***************************************************************************)
\* no two records of a balance array share a month
UniqueMonths(arr) ==
    \A j, k \in 1..Len(arr) : j # k => arr[j].month # arr[k].month

\* the record an accepted submission asks for
SubmittedRecord ==
    [month |-> ret.month, total |-> SeqSum(ret.typed),
     accounts |-> [id \in {ret.inputs[k] : k \in 1..Len(ret.inputs)} |->
                      ret.typed[CHOOSE k \in 1..Len(ret.inputs) : ret.inputs[k] = id]]]

\* C10: whatever balance submissions and balance deletions were made from the
\* empty history, no two records (in memory or persisted) share a month; and
\* after an accepted submission the history holds exactly one record of the
\* submitted month, equal to the submitted month, the sum of the submitted
\* amounts and the submitted account map, the size of the history being
\* unchanged when the month was already there (one more otherwise)
C10_UniqueMonthsAndOverwriteInPlace ==
    /\ UniqueMonths(appData.monthlyBalances)
    /\ stored.data.some => UniqueMonths(stored.data.val.monthlyBalances)
    /\ (ret.fn = "handleBalanceInput" /\ ret.accepted) =>
          /\ \E k \in 1..Len(appData.monthlyBalances) :
                appData.monthlyBalances[k] = SubmittedRecord
          /\ Len(appData.monthlyBalances)
                = ret.sizeBefore + (IF ret.existed THEN 0 ELSE 1)

\* an accepted submission for a month that already had a record, made with two
\* history months and two accounts
C10_Witness ==
    /\ ret.fn = "handleBalanceInput"
    /\ ret.accepted
    /\ ret.existed
    /\ Len(ret.inputs) = 2
    /\ Len(appData.monthlyBalances) = 2
    /\ stored.data.some
    /\ Len(stored.data.val.monthlyBalances) = 2

(***************************************************************************)
(* Claims about projections of saved scenarios (checked under SpecScenario)*)
(***************************************************************************)
\* C11: no step of runSimulation, on the live data or on a scenario, changes
\* the data model: the stored ages, settings, loans, recurring expenses, future
\* events, balances and scenarios stay as they were; ages advance on the
\* private roster of the call only
C11_ProjectionLeavesDataModelAlone ==
    [][sim' # sim => appData' = appData]_vars

\* a scenario has been projected to its end and the private roster has aged
\* while the scenario's own roster and the live roster have not
C11_Witness ==
    /\ sim.pc = "done"
    /\ sim.call = 1
    /\ Len(sim.simFamilies) > 0
    /\ sim.simFamilies[1].age > appData.scenarios.val[1].families[1].age
    /\ sim.simFamilies[1].age > appData.families[1].age

\* C12: runSimulation never raises on a dangling reference: an event or an
\* income plan whose member is missing from the roster being projected is
\* skipped, and the call returns a result
C12_NoThrowOnDanglingReference ==
    sim.pc # "threw"

(***************************************************************************)
(* Claims about events, ages and the investment profit (SpecSim)           *)
(***************************************************************************)
\* the simulated months (loop indices) in which event evt was subtracted
FiredMonths(evt) == {x \in sim.evtMonths : x[1] = evt.id}

\* the member of the projected roster an event refers to (0: none)
EventMember(evt) == FindId(sim.fams, evt.familyId)

\* the number of whole years the projection covers
HorizonYears == Min(sim.s.predictionYears, MAX_PREDICTION_MONTHS \div 12)

\* C13 as stated: within one projection every event is subtracted in at most
\* one month, and in exactly one month when its member exists and
\* member.age < targetAge <= member.age + predictionYears - 1
C13_EventOnceWithinPredictionYears ==
    sim.pc \in {"loop", "done"} =>
        \A k \in 1..Len(appData.futureEvents) :
            LET evt == appData.futureEvents[k]
                j == EventMember(evt)
            IN  /\ Cardinality(FiredMonths(evt)) <= 1
                /\ (/\ sim.pc = "done"
                    /\ j # 0
                    /\ sim.fams[j].age < evt.targetAge
                    /\ evt.targetAge <= sim.fams[j].age + sim.s.predictionYears - 1)
                   => Cardinality(FiredMonths(evt)) = 1

\* C13 amended: within one projection every event is subtracted in at most one
\* month, and in exactly one month when its member exists and member.age <
\* targetAge <= member.age + min(predictionYears, MAX_PREDICTION_MONTHS / 12) - 1
C13_EventOnceWithinHorizon ==
    sim.pc \in {"loop", "done"} =>
        \A k \in 1..Len(appData.futureEvents) :
            LET evt == appData.futureEvents[k]
                j == EventMember(evt)
            IN  /\ Cardinality(FiredMonths(evt)) <= 1
                /\ (/\ sim.pc = "done"
                    /\ j # 0
                    /\ sim.fams[j].age < evt.targetAge
                    /\ evt.targetAge <= sim.fams[j].age + HorizonYears - 1)
                   => Cardinality(FiredMonths(evt)) = 1

\* a capped projection has ended: the event of the last covered year was
\* subtracted once, the event of the year after the cap never
C13_Witness ==
    /\ sim.pc = "done"
    /\ sim.maxMonths = MAX_PREDICTION_MONTHS
    /\ \E k \in 1..Len(appData.futureEvents) :
          LET evt == appData.futureEvents[k]
              j == EventMember(evt)
          IN  /\ j # 0
              /\ evt.targetAge = sim.fams[j].age + HorizonYears - 1
              /\ Cardinality(FiredMonths(evt)) = 1

\* C14: the month in which the projection subtracts an event is targetMonth of
\* the year (current calendar year - member.age) + targetAge, the month the
\* estimator attributes it to, whatever month the projection starts from
C14_EventMonthIsFixedCalendarMonth ==
    sim.pc \in {"loop", "done"} =>
        \A k \in 1..Len(appData.futureEvents) :
            LET evt == appData.futureEvents[k]
                j == EventMember(evt)
            IN  \A x \in FiredMonths(evt) :
                    sim.labels[x[2] + 2]
                        = <<(now[1] - sim.fams[j].age) + evt.targetAge, evt.targetMonth>>

\* C19: in a simulated January after the first month the incomes of the month
\* are those computed from the ages as incremented in that January
C19_JanuaryIncomeUsesIncrementedAge ==
    (MonthRan /\ sim.m.monthNum = 1 /\ sim.m.i > 0) =>
        sim.m.incomes = MemberIncomes(appData.families, sim.s, sim.simFamilies,
                                      sim.m.yearsPassed, sim.m.inflationFactor,
                                      sim.m.monthNum)

\* C20: the profit credited to net worth in a month is the previous month's
\* investment balance times the monthly yield (zero in the first month)
C20_ProfitIsGrowthOfPreviousBalance ==
    MonthRan =>
        sim.m.investmentProfit
            = IF sim.m.i = 0 THEN R(0)
              ELSE RMul(sim.m.prevInvestment, MonthlyRate(sim.s))

(***************************************************************************)
(* Claims about failing saves (checked under Spec)                         *)
(***************************************************************************)
\* the last handler was a confirmed deletion from the collection
ConfirmedDelete(collection) ==
    /\ ret.fn = "ok"
    /\ ret.resumed.fn = "deleteItem"
    /\ ret.resumed.collection = collection

\* the last handler made a change and called saveData on a full storage
SaveFailed ==
    /\ stored.full
    /\ \/ ret.fn = "handleAddAccount" /\ ret.added.some
       \/ ret.fn = "handleBalanceInput" /\ ret.accepted
       \/ ret.fn = "ok" /\ ret.resumed.fn = "deleteItem"

\* the change the last handler made is in the in-memory data model
ChangeKept ==
    /\ (ret.fn = "handleAddAccount" /\ ret.added.some) =>
          \E k \in 1..Len(appData.accounts) : appData.accounts[k].id = ret.added.val
    /\ (ret.fn = "handleBalanceInput" /\ ret.accepted) =>
          \E k \in 1..Len(appData.monthlyBalances) :
              appData.monthlyBalances[k] = SubmittedRecord
    /\ ConfirmedDelete("accounts") =>
          \A k \in 1..Len(appData.accounts) : appData.accounts[k].id # ret.resumed.id
    /\ ConfirmedDelete("monthlyBalances") =>
          \A k \in 1..Len(appData.monthlyBalances) :
              appData.monthlyBalances[k].month # ret.resumed.id

ImportAborted ==
    \/ ret.fn = "handleImportData" /\ ~dom.reading.some
    \/ ret.fn = "readerOnload" /\ ret.outcome \in {"parse error", "structure error"}
    \/ ret.fn = "cancel" /\ ret.resumed.fn = "import"

\* C15: an import that fails to parse, whose document lacks accounts or
\* families, or that is cancelled at the confirmation leaves the working data
\* model and the persisted copy exactly as they were
C15_AbortedImportChangesNothing ==
    [][ImportAborted' => (appData' = appData /\ stored' = stored)]_vars

\* an import into a data model in use was cancelled at the confirmation
C15_Witness ==
    /\ ret.fn = "cancel"
    /\ ret.resumed.fn = "import"
    /\ Len(appData.monthlyBalances) > 0
    /\ stored.data = Some(appData)

\* nothing of a collection or block is left: it is absent, empty or the default
Vacant(key, value) ==
    IF key \in {"loans", "scenarios"} THEN ~value.some \/ value.val = <<>>
    ELSE IF key = "settings" THEN value = DefaultSettings
    ELSE value = <<>>

\* C16: after an accepted import every collection and the settings block of
\* the data model equal those of the imported document, and nothing of the
\* pre-import data model is left under the keys the document does not have
C16_AcceptedImportReplacesEverything ==
    (ret.fn = "ok" /\ ret.resumed.fn = "import") =>
        \A key \in DOMAIN appData :
            IF key \in DOMAIN ret.resumed.importedData
            THEN appData[key] = ret.resumed.importedData[key]
            ELSE Vacant(key, appData[key])

(***************************************************************************)
(* Claims about saved scenarios (checked under SpecSnapshot)               *)
(***************************************************************************)
\* what a scenario stores
Contents(sc) ==
    [id |-> sc.id, name |-> sc.name, settings |-> sc.settings,
     families |-> sc.families, loans |-> sc.loans, recurring |-> sc.recurring]

ScenarioContents(data) ==
    [k \in 1..Len(OrElse(data.scenarios, <<>>)) |-> Contents(data.scenarios.val[k])]

\* C18: a saved scenario holds the settings, families, loans and recurring
\* expenses as they were when it was saved, and no later step (a settings
\* update, an add or a delete of a live family, loan or recurring expense, a
\* projection step) changes what a scenario stores; a confirmed deleteItem on
\* scenarios removes the scenario with the given id and no other
C18_ScenarioIsDeepCopyAndDeletedById ==
    [][ IF /\ ret'.fn = "ok"
           /\ ret'.resumed.fn = "deleteItem"
           /\ ret'.resumed.collection = "scenarios"
        THEN ScenarioContents(appData')
                = SelectSeq(ScenarioContents(appData),
                            LAMBDA sc : sc.id # ret'.resumed.id)
        ELSE IF ret'.fn = "handleAddScenario" /\ ret'.added.some
        THEN ScenarioContents(appData')
                = Append(ScenarioContents(appData),
                         [id |-> ret'.added.val, name |-> <<"s">>,
                          settings |-> appData.settings,
                          families |-> appData.families,
                          loans |-> OrElse(appData.loans, <<>>),
                          recurring |-> appData.recurringExpenses])
        ELSE ScenarioContents(appData') = ScenarioContents(appData) ]_vars

\* a scenario saved with a family on the roster has been projected to its end
\* after the family was deleted and the settings were updated
C18_Witness ==
    /\ sim.pc = "done"
    /\ sim.call = 1
    /\ appData.scenarios.val[1].families # <<>>
    /\ appData.families = <<>>
    /\ appData.scenarios.val[1].settings # appData.settings

(***************************************************************************)
(* Claims about simulated ages and recurring expenses (SpecSim)            *)
(***************************************************************************)
\* the simulated Januaries so far, the first simulated month not counted:
\* labels[1] is the latest month of the history, labels[2] the first simulated
\* month
JanuariesSoFar == Cardinality({j \in 3..Len(sim.labels) : sim.labels[j][2] = 1})

\* C21: after every simulated month each simulated member's age is the age of
\* the roster the run started from plus the number of simulated Januaries up
\* to and including that month, the first simulated month not counted; all
\* members advance by the same count and no age decreases from one month to
\* the next
C21_AgeIsStartPlusJanuaries ==
    (sim.pc \in {"loop", "done"} /\ sim.i > 0) =>
        /\ Len(sim.simFamilies) = Len(sim.fams)
        /\ \A k \in 1..Len(sim.simFamilies) :
              /\ sim.simFamilies[k].age = sim.fams[k].age + JanuariesSoFar
              /\ sim.fams[k].age = appData.families[k].age
              /\ sim.simFamilies[k].age >= sim.m.agesBefore[k]
              /\ sim.simFamilies[k].age - sim.m.agesBefore[k]
                    = sim.simFamilies[1].age - sim.m.agesBefore[1]

\* a run of two members that began in a January and has passed a second one
C21_Witness ==
    /\ sim.pc = "done"
    /\ Len(sim.simFamilies) = 2
    /\ sim.labels[2][2] = 1
    /\ JanuariesSoFar = 1
    /\ sim.simFamilies[2].age = appData.families[2].age + 1
\* the head of the household in the month just simulated
HeadAge == sim.simFamilies[1].age

LicenseReturned == Len(sim.simFamilies) > 0 /\ HeadAge >= sim.s.licenseReturnAge

\* C22: in a month in which the simulated age of the household head is
\* licenseReturnAge or more, no recurring expense tagged vehicle is charged,
\* and the age, once reached, stays reached in every later month; in a month
\* before that age a vehicle expense is charged exactly on its schedule
C22_VehicleExpenseStopsAtLicenseReturn ==
    (sim.pc \in {"loop", "done"} /\ sim.i > 0) =>
        /\ (Len(sim.simFamilies) > 0 /\ sim.m.agesBefore[1] >= sim.s.licenseReturnAge)
              => LicenseReturned
        /\ \A k \in 1..Len(sim.recurring) :
              sim.recurring[k].category = "vehicle" =>
                 IF LicenseReturned THEN k \notin sim.m.charged
                 ELSE k \in sim.m.charged <=> DueByRule(sim.recurring[k], sim.m.ym)

\* the head turned 60 in the year of the month just simulated, in which a
\* vehicle expense is due and is not charged, after it was charged at 59 in
\* the first simulated month
C22_Witness ==
    /\ sim.pc = "loop"
    /\ sim.i > 0
    /\ Len(sim.simFamilies) > 0
    /\ HeadAge = 60
    /\ sim.fams[1].age = 59
    /\ sim.labels[2] = <<2025, 12>>
    /\ \E k \in 1..Len(sim.recurring) :
          /\ sim.recurring[k] = Shaken
          /\ DueByRule(sim.recurring[k], sim.m.ym)
          /\ k \notin sim.m.charged

\* C23: a recurring expense tagged housing, insurance, education or other is
\* never suppressed by the licence-return rule, whatever its name: it is
\* charged in every month of its schedule
C23_TagWinsOverName ==
    (sim.pc \in {"loop", "done"} /\ sim.i > 0) =>
        \A k \in 1..Len(sim.recurring) :
            (sim.recurring[k].category
                \in {"housing", "insurance", "education", "other"}
             /\ DueByRule(sim.recurring[k], sim.m.ym))
               => k \in sim.m.charged
(***************************************************************************)
(* Claims about the living-cost baseline (checked under SpecLiving)        *)
(***************************************************************************)
\* the growth expenses, at the start of the run, of the members other than
\* the head who are not older than childIndependenceAge
RECURSIVE DependentGrowthAtStart(_, _, _)
DependentGrowthAtStart(fams, s, k) ==
    IF k < 2 THEN 0
    ELSE DependentGrowthAtStart(fams, s, k - 1)
         + (IF fams[k].age <= s.childIndependenceAge
            THEN getGrowthExpense(fams[k].age) ELSE 0)

\* C24: for every configured currentLivingCost >= 0, zero included, the
\* baseline of the projection is max(0, currentLivingCost - the growth
\* expenses of the dependents at the start) and is never negative
C24_BaselineIsConfiguredCostLessGrowth ==
    (sim.pc \in {"loop", "done"} /\ sim.s.currentLivingCost >= 0) =>
        /\ sim.baseLivingCost >= 0
        /\ sim.baseLivingCost
              = Max(0, sim.s.currentLivingCost
                         - DependentGrowthAtStart(sim.fams, sim.s, Len(sim.fams)))
(***************************************************************************)
(* Claims relating the two firing rules (checked under SpecRecurring)      *)
(***************************************************************************)
\* C25: for a recurring expense with a positive interval and a month at or
\* after its startYM, the firing test of the projection loop (the month
\* difference from startYM is divisible by intervalYears * 12) is true exactly
\* when the rule of the recurring-expense evaluator (same calendar month,
\* year gap divisible by intervalYears) is true
C25_LoopTestEqualsEvaluatorRule ==
    ret.fn = "getRecurringExpenseForMonth" =>
        \A k \in 1..Len(appData.recurringExpenses) :
            LET exp == appData.recurringExpenses[k]
            IN  (exp.intervalYears > 0 /\ LocaleCompare(ret.targetYM, exp.startYM) >= 0)
                   => (FiresInLoop(exp, ret.targetYM) <=> RecurringFires(exp, ret.targetYM))

\* both rules fire two intervals after the start of an expense due every two
\* years, next to an expense that neither rule fires
C25_Witness ==
    /\ ret.fn = "getRecurringExpenseForMonth"
    /\ Len(appData.recurringExpenses) = 2
    /\ LET exp == appData.recurringExpenses[1]
           other == appData.recurringExpenses[2]
       IN  /\ exp.intervalYears = 2
           /\ ret.targetYM = <<exp.startYM[1] + 4, exp.startYM[2]>>
           /\ FiresInLoop(exp, ret.targetYM)
           /\ RecurringFires(exp, ret.targetYM)
           /\ LocaleCompare(ret.targetYM, other.startYM) >= 0
           /\ ~FiresInLoop(other, ret.targetYM)
           /\ ~RecurringFires(other, ret.targetYM)
(***************************************************************************)
(* Claims about the order of the balance history (checked under Spec)      *)
(***************************************************************************)
\* C26: after any sequence of balance submissions, balance deletions and
\* renders of the balance-input screen, the in-memory monthlyBalances is in
\* ascending month order
C26_HistoryAscendingInMemory ==
    \A k \in 1..(Len(appData.monthlyBalances) - 1) :
        LocaleCompare(appData.monthlyBalances[k].month,
                      appData.monthlyBalances[k + 1].month) <= 0
(***************************************************************************)
(* Claims about references to family members (checked under SpecRefs)      *)
(***************************************************************************)
FamilyIds == {appData.families[k].id : k \in 1..Len(appData.families)}

\* C27: after any sequence of adds and deletes of families and future events
\* and of settings saves, the familyId of every stored future event and every
\* key of the income plans is the id of a member of the families collection
C27_ReferencesPointToFamilies ==
    /\ \A k \in 1..Len(appData.futureEvents) :
          appData.futureEvents[k].familyId \in FamilyIds
    /\ DOMAIN appData.settings.familyIncomes \subseteq FamilyIds
(***************************************************************************)
(* Claims about the balance history as an input (SpecHistory)              *)
(***************************************************************************)
\* histories with the same latest record as h: that record alone, the records
\* of h with the latest one moved to the front or to the end, and the latest
\* record after or before other earlier records
SameLatest(h) ==
    IF h = <<>> THEN {<<>>}
    ELSE LET sorted == SortByMonth(h, 1)
             latest == sorted[Len(sorted)]
             earlier == SelectSeq(h, LAMBDA item : item.month # latest.month)
         IN  { <<latest>>,
               <<latest>> \o earlier,
               earlier \o <<latest>>,
               <<Balance(<<2024, 6>>, 123456), latest>>,
               <<latest, Balance(<<2023, 1>>, -5), Balance(<<2024, 6>>, 123456)>> }

\* C28: the projection depends on the balance history only through the record
\* of the latest month: a history with the same latest month and total, in
\* any storage order and with any earlier records, gives the same labels,
\* net-worth series, investment series, breakdown and crash month
C28_OnlyLatestRecordMatters ==
    sim.pc = "done" =>
        \A h \in SameLatest(appData.monthlyBalances) :
            runSimulationOn([appData EXCEPT !.monthlyBalances = h]) = sim.result.val

\* a projection has ended on a history of three records stored out of order,
\* for which the estimator has given its estimate
C28_Witness ==
    /\ sim.pc = "done"
    /\ est.pc = "done"
    /\ est.result.some
    /\ Len(appData.monthlyBalances) = 3
    /\ appData.monthlyBalances # SortByMonth(appData.monthlyBalances, 1)
    /\ Len(sim.result.val.data) > 12
(***************************************************************************)
(* Claims about clear-all and the shared dialog (checked under SpecDialog) *)
(***************************************************************************)
\* C29: after a confirmed handleClearData the data model is the initial
\* default one: every collection is empty and every settings field has its
\* initial default value
C29_ClearRestoresInitialState ==
    (ret.fn = "ok" /\ ret.resumed.fn = "clear") => appData = DefaultAppData
\* the steps of the dialog and of the handlers that ask for a confirmation
DialogSteps ==
    {"ok", "cancel", "deleteItem", "handleImportData", "readerOnload", "handleClearData"}

\* C30: a delete, an import or a clear-all is executed only by an OK click
\* made while the confirmation of that very action is the dialog on display:
\* asking, a cancel click, and an OK click on a dialog that has replaced the
\* confirmation change neither the data model nor the stored copy
C30_OnlyOwnConfirmationExecutes ==
    [][ (ret'.fn \in DialogSteps /\ (appData' # appData \/ stored' # stored))
           => /\ ret'.fn = "ok"
              /\ ~modal.hidden
              /\ ~modal.cancelHidden
              /\ modal.cancel = modal.ok
              /\ ret'.resumed = modal.ok
              /\ modal.ok.fn \in {"deleteItem", "import", "clear"} ]_vars

\* the OK button was clicked on a plain message that had replaced the
\* confirmation of a clear-all: nothing was executed, the data is still there
C30_Witness ==
    /\ ret.fn = "ok"
    /\ ret.resumed.fn = "none"
    /\ modal.hidden
    /\ modal.cancel.fn = "clear"
    /\ appData.accounts # <<>>
    /\ stored.data.some

====
